---------------------------- MODULE Spec2Model ----------------------------
(***************************************************************************)
(* Model of the class scheduler of src/app.py: the placement engine        *)
(* (ClassScheduler), the /generate_schedule, /set_selection and             *)
(* /load_saved_schedule handlers and the drag-and-drop handlers             *)
(* /api/get_valid_slots and /api/move_class, over the process-wide          *)
(* variables selected_classes, manual_session_assignments and               *)
(* current_schedule and the file last_schedule.json.                        *)
(*                                                                         *)
(* Encoding of Python values:                                              *)
(*   - a period is an integer; the string 'Open' in a period field is      *)
(*     OpenPeriod;                                                         *)
(*   - None is the string "None"; a missing grid (current_schedule None)   *)
(*     is NoSchedule;                                                      *)
(*   - a student name is a positive integer, the empty name is 0; a        *)
(*     Students field is the sequence of names between the semicolons;     *)
(*   - a dictionary key "day_period_x" is the tuple <<day, period, x>>;    *)
(*   - session indices are 0-based as in the code, sequences are 1-based.  *)
(***************************************************************************)
EXTENDS Integers, Sequences, FiniteSets, TLC

Range(f) == {f[i] : i \in DOMAIN f}

(* a list, or a dictionary, built by a comprehension: its elements are computed once *)
List(f) == f \o << >>
Dict(f) == f @@ << >>

(* a local variable x = v: v is computed first, then Op with x for its parameter *)
With(v, Op(_)) == CHOOSE r \in {Op(x) : x \in {v}} : TRUE

(* a loop over i = 1..n that updates one value: acc = Op(acc, i) *)
Fold(Op(_, _), base, n) ==
    LET F[i \in 0..n] == IF i = 0 THEN base ELSE With(F[i - 1], LAMBDA acc : Op(acc, i))
    IN F[n]

(* src/app.py:62 *)
DAYS == <<"Monday", "Tuesday", "Wednesday", "Thursday", "Friday">>
DaySet == Range(DAYS)

(* range(1, 12): the periods of the grid, 11 is Period 7b *)
FirstPeriod == 1
LastPeriod == 11
Periods == FirstPeriod..LastPeriod

OpenPeriod == 0
NoneVal == "None"

RoomNames == {"Computer Lab", "Chapel", "Classroom 2", "Classroom 4",
              "Classroom 5", "Classroom 6"}

(* preferred_room.lower().replace(' ', '_') and the explicit branches *)
RoomTypeOf(room) ==
    CASE room = "Computer Lab" -> "computer_lab"
      [] room = "Chapel" -> "chapel"
      [] room = "Classroom 2" -> "classroom_2"
      [] room = "Classroom 4" -> "classroom_4"
      [] room = "Classroom 5" -> "classroom_5"
      [] room = "Classroom 6" -> "classroom_6"
      [] OTHER -> "unknown"

(* room_type.replace('_', ' ').title() *)
RoomDisplay(room_type) ==
    CASE room_type = "computer_lab" -> "Computer Lab"
      [] room_type = "chapel" -> "Chapel"
      [] room_type = "classroom_2" -> "Classroom 2"
      [] room_type = "classroom_4" -> "Classroom 4"
      [] room_type = "classroom_5" -> "Classroom 5"
      [] room_type = "classroom_6" -> "Classroom 6"
      [] OTHER -> "Unknown"

SpecificClassrooms == {"classroom_2", "classroom_4", "classroom_5", "classroom_6"}

(***************************************************************************)
(* The uploaded class list (classes_data after /upload).  Students 101..   *)
(* are the names of a class of more than ChapelThreshold students.         *)
(***************************************************************************)
ChapelThreshold == 40
BigClassSize == 40

BigClass(first) == List([i \in 1..BigClassSize |-> first + i])

classes_data ==
    << [Class |-> "A", Teacher |-> "T1", Course |-> "BTCM", Units |-> 12,
        Students |-> <<1, 2>>],
       [Class |-> "B", Teacher |-> "T1", Course |-> "BTCM", Units |-> 12,
        Students |-> <<3>>],
       [Class |-> "C", Teacher |-> "T2", Course |-> "GECO", Units |-> 8,
        Students |-> <<2, 0, 4>>],
       [Class |-> "D", Teacher |-> "T3", Course |-> "BTCM", Units |-> 4,
        Students |-> <<4, 6>> \o BigClass(100)],
       [Class |-> "E", Teacher |-> "T4", Course |-> "BTCM", Units |-> 6,
        Students |-> <<5>>],
       [Class |-> "F", Teacher |-> "T5", Course |-> "GELA", Units |-> 4,
        Students |-> <<6>>],
       [Class |-> "G", Teacher |-> "T1", Course |-> "BTCM", Units |-> 12,
        Students |-> <<7>>],
       [Class |-> "H", Teacher |-> "T1", Course |-> "BTCM", Units |-> 12,
        Students |-> <<8>>],
       [Class |-> "K", Teacher |-> "T1", Course |-> "BTCM", Units |-> 12,
        Students |-> <<9>>],
       [Class |-> "L", Teacher |-> "T6", Course |-> "BTCM", Units |-> 4,
        Students |-> <<10>>],
       [Class |-> "M", Teacher |-> "T7", Course |-> "BTCM", Units |-> 4,
        Students |-> <<11>>] >>

ClassNames == {classes_data[i].Class : i \in DOMAIN classes_data}

(* the first record of the list with that name *)
ClassInfo(class_name) ==
    classes_data[CHOOSE i \in DOMAIN classes_data :
                    /\ classes_data[i].Class = class_name
                    /\ \A j \in 1..(i - 1) : classes_data[j].Class # class_name]

(* legacy per-class overrides: /set_selection always leaves them empty *)
manual_room_assignments == << >>
manual_period_assignments == << >>

(***************************************************************************)
(* Session model                                                           *)
(***************************************************************************)
parse_students(student_string) == SelectSeq(student_string, LAMBDA s : s # 0)

StudentSet(class_info) == Range(parse_students(class_info.Students))

get_class_frequency(units) ==
    CASE units = 4 -> 1
      [] units = 8 -> 2
      [] units = 12 -> 3
      [] OTHER -> 1

get_preferred_daysShort(frequency) ==
    CASE frequency = 1 ->
           << <<"Monday">>, <<"Tuesday">>, <<"Wednesday">>, <<"Thursday">>,
              <<"Friday">> >>
      [] frequency = 2 ->
           << <<"Tuesday", "Thursday">>, <<"Monday", "Wednesday">>,
              <<"Monday", "Friday">>, <<"Wednesday", "Friday">>,
              <<"Monday", "Tuesday">>, <<"Tuesday", "Wednesday">>,
              <<"Wednesday", "Thursday">> >>
      [] frequency = 3 ->
           << <<"Monday", "Wednesday", "Friday">>,
              <<"Monday", "Tuesday", "Thursday">>,
              <<"Tuesday", "Wednesday", "Friday">>,
              <<"Monday", "Tuesday", "Wednesday">>,
              <<"Tuesday", "Wednesday", "Thursday">> >>
      [] OTHER -> << <<"Monday">> >>

get_preferred_daysMut(frequency) ==
    IF frequency = 3
    THEN << <<"Monday", "Tuesday", "Thursday">>, <<"Monday", "Wednesday", "Friday">> >>
    ELSE << <<"Monday">> >>

get_preferred_days(frequency) ==
    CASE frequency = 1 ->
           << <<"Monday">>, <<"Tuesday">>, <<"Wednesday">>, <<"Thursday">>,
              <<"Friday">> >>
      [] frequency = 2 ->
           << <<"Tuesday", "Thursday">>, <<"Monday", "Wednesday">>,
              <<"Monday", "Friday">>, <<"Wednesday", "Friday">>,
              <<"Monday", "Tuesday">>, <<"Tuesday", "Wednesday">>,
              <<"Wednesday", "Thursday">>, <<"Thursday", "Friday">> >>
      [] frequency = 3 ->
           << <<"Monday", "Wednesday", "Friday">>,
              <<"Monday", "Tuesday", "Thursday">>,
              <<"Tuesday", "Wednesday", "Friday">>,
              <<"Monday", "Tuesday", "Wednesday">>,
              <<"Tuesday", "Wednesday", "Thursday">>,
              <<"Wednesday", "Thursday", "Friday">> >>
      [] OTHER -> << <<"Monday">> >>

(***************************************************************************)
(* Room assigner                                                           *)
(***************************************************************************)
IsComputerCourse(course) == course \in {"GECO", "GELA"}

AssignRoomMut(manual_rooms, class_info) ==
    IF /\ class_info.Class \in DOMAIN manual_rooms
       /\ manual_rooms[class_info.Class] \in RoomNames
    THEN RoomTypeOf(manual_rooms[class_info.Class])
    ELSE IF Len(parse_students(class_info.Students)) > ChapelThreshold
         THEN "chapel"
    ELSE IF IsComputerCourse(class_info.Course) THEN "computer_lab"
    ELSE "regular_classroom"

(* assign_room on a scheduler whose manual_room_assignments is manual_rooms *)
AssignRoom(manual_rooms, class_info) ==
    IF /\ class_info.Class \in DOMAIN manual_rooms
       /\ manual_rooms[class_info.Class] \in RoomNames
    THEN RoomTypeOf(manual_rooms[class_info.Class])
    ELSE IF IsComputerCourse(class_info.Course) THEN "computer_lab"
    ELSE IF Len(parse_students(class_info.Students)) > ChapelThreshold
         THEN "chapel"
    ELSE "regular_classroom"

assign_room(class_info) == AssignRoom(manual_room_assignments, class_info)

regular_classrooms == <<"classroom_2", "classroom_4", "classroom_5", "classroom_6">>

(* the first free pool room of the slot, or NoneVal *)
get_available_regular_classroom(day, period, assigned_rooms) ==
    LET free == {i \in DOMAIN regular_classrooms :
                    <<day, period, regular_classrooms[i]>> \notin assigned_rooms}
    IN IF free = {} THEN NoneVal
       ELSE regular_classrooms[CHOOSE i \in free : \A j \in free : i <= j]

(***************************************************************************)
(* Conflict detector                                                       *)
(***************************************************************************)
TeacherConflictMut(class1, class2) == FALSE
TeacherConflict(class1, class2) == class1.Teacher = class2.Teacher

SharedStudentsMut(class1, class2) == {}
SharedStudents(class1, class2) == StudentSet(class1) \cap StudentSet(class2)

(* check_conflicts that reports shared students only in the first class of *)
(* the uploaded list                                                       *)
check_conflictsOneWay(class1, class2) ==
    (IF TeacherConflict(class1, class2)
     THEN << [type |-> "teacher", with |-> class2.Class] >> ELSE << >>)
    \o
    (IF SharedStudents(class1, class2) # {} /\ class1.Class = classes_data[1].Class
     THEN << [type |-> "student", with |-> class2.Class] >> ELSE << >>)

(* the list of conflict records of check_conflicts, teacher first *)
check_conflicts(class1, class2) ==
    (IF TeacherConflict(class1, class2)
     THEN << [type |-> "teacher", with |-> class2.Class] >> ELSE << >>)
    \o
    (IF SharedStudents(class1, class2) # {}
     THEN << [type |-> "student", with |-> class2.Class] >> ELSE << >>)


(***************************************************************************)
(* Scheduler state of one generate_schedule_internal run: a record with    *)
(*   schedule            [day -> [period -> sequence of class names]]      *)
(*   room_assignments    function <<day, period, class>> -> room name      *)
(*   assigned_rooms      set of occupied <<day, period, room type>>        *)
(*   manual_conflicts    sequence of rejected-pin records                  *)
(*   manually_scheduled_sessions, manual_room_preferences,                 *)
(*   manual_period_preferences, manual_day_preferences                     *)
(*   unscheduled_classes sequence of class names                           *)
(***************************************************************************)
EmptyDict == << >>

EmptyGrid == Dict([d \in DaySet |-> List([p \in Periods |-> << >>])])

InitialRun ==
    [schedule |-> EmptyGrid,
     room_assignments |-> EmptyDict,
     assigned_rooms |-> {},
     manual_conflicts |-> << >>,
     manually_scheduled_sessions |-> EmptyDict,
     manual_room_preferences |-> EmptyDict,
     manual_period_preferences |-> EmptyDict,
     manual_day_preferences |-> EmptyDict,
     unscheduled_classes |-> << >>]

(* d[k] = v on a dictionary *)
Put(d, k, v) == (k :> v) @@ d

Get(d, k, default) == IF k \in DOMAIN d THEN d[k] ELSE default

(* lines 644-655 and 695-707: the room type a placement is checked and made with *)
PlacementRoomType(class_info, preferred_room) ==
    IF preferred_room \notin {NoneVal, "", "Open"}
    THEN IF preferred_room \in RoomNames THEN RoomTypeOf(preferred_room)
         ELSE assign_room(class_info)
    ELSE assign_room(class_info)

(* conflicts of class_info with the classes already in one slot *)
SlotConflicts(schedule, class_info, day, period) ==
    LET existing_classes == schedule[day][period]
    IN Fold(LAMBDA conflicts_found, i :
                conflicts_found
                \o check_conflicts(class_info, ClassInfo(existing_classes[i])),
            << >>, Len(existing_classes))

(* the room part of can_schedule_class for one day *)
RoomUnavailable(room_type, day, period, assigned_rooms) ==
    IF room_type \in {"computer_lab", "chapel"} \cup SpecificClassrooms
    THEN IF <<day, period, room_type>> \in assigned_rooms
         THEN << [type |-> "room", with |-> room_type] >> ELSE << >>
    ELSE IF get_available_regular_classroom(day, period, assigned_rooms) = NoneVal
         THEN << [type |-> "room", with |-> "regular_classroom"] >> ELSE << >>

(* conflicts_found of can_schedule_class; the class can be scheduled iff it is empty *)
can_schedule_class(schedule, class_info, day_option, period, assigned_rooms, preferred_room) ==
    With(PlacementRoomType(class_info, preferred_room), LAMBDA room_type :
    Fold(LAMBDA conflicts_found, i :
             conflicts_found
             \o SlotConflicts(schedule, class_info, day_option[i], period)
             \o RoomUnavailable(room_type, day_option[i], period, assigned_rooms),
         << >>, Len(day_option)))

AppendToSlot(schedule, day, period, class_name) ==
    [schedule EXCEPT ![day][period] = Append(@, class_name)]

(* lines 714-734: reserve the room of one day of a placement *)
ReserveRoom(s, class_name, room_type, day, period) ==
    IF room_type \in {"computer_lab", "chapel"} \cup SpecificClassrooms
    THEN [s EXCEPT !.assigned_rooms = @ \cup {<<day, period, room_type>>},
                   !.room_assignments =
                       Put(@, <<day, period, class_name>>, RoomDisplay(room_type))]
    ELSE With(get_available_regular_classroom(day, period, s.assigned_rooms),
              LAMBDA available_room :
         IF available_room # NoneVal
         THEN [s EXCEPT !.assigned_rooms = @ \cup {<<day, period, available_room>>},
                        !.room_assignments =
                            Put(@, <<day, period, class_name>>,
                                RoomDisplay(available_room))]
         ELSE s)

ScheduleOneDayMut(s, class_info, room_type, day, period) == s
ScheduleOneDay(s, class_info, room_type, day, period) ==
    ReserveRoom([s EXCEPT !.schedule = AppendToSlot(@, day, period, class_info.Class)],
                class_info.Class, room_type, day, period)

(* schedule_class that stops after the first day of the pattern *)
schedule_classFirstDay(s, class_info, day_option, period, preferred_room) ==
    With(PlacementRoomType(class_info, preferred_room), LAMBDA room_type :
    Fold(LAMBDA run, i : ScheduleOneDay(run, class_info, room_type, day_option[i], period),
         s, IF Len(day_option) > 0 THEN 1 ELSE 0))

schedule_class(s, class_info, day_option, period, preferred_room) ==
    With(PlacementRoomType(class_info, preferred_room), LAMBDA room_type :
    Fold(LAMBDA run, i : ScheduleOneDay(run, class_info, room_type, day_option[i], period),
         s, Len(day_option)))


(***************************************************************************)
(* manual_session_assignments: a dictionary in insertion order, modelled   *)
(* as a sequence of [cls, sessions] entries with distinct cls; a session   *)
(* is [day, period, room].                                                 *)
(***************************************************************************)
OpenSession == [day |-> "Open", period |-> OpenPeriod, room |-> "Open"]

HasKey(assignments, class_name) ==
    \E i \in DOMAIN assignments : assignments[i].cls = class_name

SessionsOf(assignments, class_name) ==
    assignments[CHOOSE i \in DOMAIN assignments : assignments[i].cls = class_name].sessions

(***************************************************************************)
(* Manual constraint resolver (generate_schedule_internal, first phase)    *)
(***************************************************************************)
PinSearchPeriods == <<1, 2, 4, 5, 6, 7, 8, 9, 10, 11>>

NoSlot == [found |-> FALSE, day |-> "Open", period |-> OpenPeriod]

(* lines 1045-1061: day given, period open: the first empty period of the day *)
FindPeriodOnDay(s, class_info, day) ==
    With({i \in DOMAIN PinSearchPeriods :
             /\ s.schedule[day][PinSearchPeriods[i]] = << >>
             /\ can_schedule_class(s.schedule, class_info, <<day>>,
                                   PinSearchPeriods[i], {}, NoneVal) = << >>},
         LAMBDA ok :
    IF ok = {} THEN NoSlot
    ELSE [found |-> TRUE, day |-> day,
          period |-> PinSearchPeriods[CHOOSE i \in ok : \A j \in ok : i <= j]])

(* lines 1064-1080: period given, day 'Open': the first day with that period empty *)
FindDayForPeriod(s, class_info, period) ==
    With({i \in DOMAIN DAYS :
             /\ s.schedule[DAYS[i]][period] = << >>
             /\ can_schedule_class(s.schedule, class_info, <<DAYS[i]>>,
                                   period, {}, NoneVal) = << >>},
         LAMBDA ok :
    IF ok = {} THEN NoSlot
    ELSE [found |-> TRUE, day |-> DAYS[CHOOSE i \in ok : \A j \in ok : i <= j],
          period |-> period])

(* lines 1040-1085: the slot a pin is tried at, or NoSlot (the code's continue) *)
PinSlot(s, class_info, session) ==
    LET is_day_specified == session.day \notin {"Open", "", NoneVal}
        is_period_specified == session.period # OpenPeriod
    IN IF is_day_specified /\ is_period_specified
       THEN [found |-> TRUE, day |-> session.day, period |-> session.period]
       ELSE IF is_day_specified /\ session.period = OpenPeriod
       THEN FindPeriodOnDay(s, class_info, session.day)
       ELSE IF is_period_specified /\ session.day = "Open"
       THEN FindDayForPeriod(s, class_info, session.period)
       ELSE NoSlot

(* lines 1134-1187: the room of a placed pin *)
PinRoom(s, class_info, day, period, room) ==
    LET room_key == <<day, period, class_info.Class>>
    IN IF room \notin {"Open", "TBD"}
       THEN [s EXCEPT !.room_assignments = Put(@, room_key, room),
                      !.assigned_rooms =
                          IF room \in RoomNames
                          THEN @ \cup {<<day, period, RoomTypeOf(room)>>} ELSE @]
       ELSE LET assigned_room_type == assign_room(class_info)
            IN IF assigned_room_type \in {"computer_lab", "chapel"} \cup SpecificClassrooms
               THEN [s EXCEPT !.room_assignments =
                                  Put(@, room_key, RoomDisplay(assigned_room_type)),
                              !.assigned_rooms =
                                  @ \cup {<<day, period, assigned_room_type>>}]
               ELSE LET available_room ==
                            get_available_regular_classroom(day, period, s.assigned_rooms)
                    IN IF available_room # NoneVal
                       THEN [s EXCEPT !.room_assignments =
                                          Put(@, room_key, RoomDisplay(available_room)),
                                      !.assigned_rooms =
                                          @ \cup {<<day, period, available_room>>}]
                       ELSE [s EXCEPT !.room_assignments = Put(@, room_key, "TBD")]

AddToSet(d, k, v) == Put(d, k, Get(d, k, {}) \cup {v})

(* lines 1089-1117: a pin whose slot holds a conflicting class is recorded, not placed *)
RecordManualConflict(s, class_info, day, period, conflicts_found) ==
    [s EXCEPT !.manual_conflicts =
        Append(@, [class |-> class_info.Class, day |-> day, period |-> period,
                   conflicts |-> conflicts_found,
                   type |-> "manual_assignment_conflict"])]

(* lines 1198-1236: a session with neither day nor period: preferences only *)
RecordPreferences(s, class_name, session_index, session) ==
    LET s1 == IF session.room \notin {"Open", "TBD"}
              THEN [s EXCEPT !.manual_room_preferences =
                        Put(@, class_name,
                            Put(Get(@, class_name, EmptyDict), session_index, session.room))]
              ELSE s
        s2 == IF session.day = "Open" /\ session.period # OpenPeriod
              THEN [s1 EXCEPT !.manual_period_preferences =
                        Put(@, class_name,
                            Put(Get(@, class_name, EmptyDict), session_index, session.period))]
              ELSE s1
    IN IF /\ session.period = OpenPeriod
          /\ session.day \notin {"Open", "", NoneVal}
          /\ session.day \in DaySet
       THEN [s2 EXCEPT !.manual_day_preferences =
                Put(@, class_name,
                    Put(Get(@, class_name, EmptyDict), session_index, session.day))]
       ELSE s2

(* lines 1013-1236: one session of one class *)
ProcessManualSession(s, class_info, session_index, session) ==
    LET is_day_specified == session.day \notin {"Open", "", NoneVal}
        is_period_specified == session.period # OpenPeriod
    IN IF is_day_specified \/ is_period_specified
       THEN With(PinSlot(s, class_info, session), LAMBDA slot :
            IF ~slot.found THEN s
            ELSE With(SlotConflicts(s.schedule, class_info, slot.day, slot.period),
                      LAMBDA conflicts_found :
                 IF conflicts_found # << >>
                 THEN RecordManualConflict(s, class_info, slot.day, slot.period,
                                           conflicts_found)
                 ELSE With([s EXCEPT !.schedule =
                               AppendToSlot(@, slot.day, slot.period, class_info.Class)],
                           LAMBDA placed :
                      [PinRoom(placed, class_info, slot.day, slot.period, session.room)
                          EXCEPT !.manually_scheduled_sessions =
                              AddToSet(@, class_info.Class, session_index)])))
       ELSE RecordPreferences(s, class_info.Class, session_index, session)

(* lines 1010-1013: all the sessions of one class, in index order *)
ProcessManualClass(s, class_info, sessions) ==
    Fold(LAMBDA run, i : ProcessManualSession(run, class_info, i - 1, sessions[i]),
         [s EXCEPT !.manually_scheduled_sessions = Put(@, class_info.Class, {})],
         Len(sessions))

(* lines 986-1257: the manual phase over the assignments of the selected classes *)
ProcessManualAssignments(classes, assignments) ==
    LET selected_class_names == {classes[i].Class : i \in DOMAIN classes}
    IN Fold(LAMBDA run, i :
                IF assignments[i].cls \in selected_class_names
                THEN ProcessManualClass(run, ClassInfo(assignments[i].cls),
                                        assignments[i].sessions)
                ELSE run,
            InitialRun, Len(assignments))


(***************************************************************************)
(* analyze_manual_session_pattern                                          *)
(***************************************************************************)
(* lines 492-516: while len(list) <= index: append None; list[index] = value *)
ApplyPreferences(list, prefs, filler) ==
    LET keys == DOMAIN prefs
        n == Cardinality(keys)
        (* the keys in insertion order: increasing session index *)
        KeyAt[i \in 1..n] ==
            CHOOSE k \in keys : Cardinality({j \in keys : j < k}) = i - 1
        F[i \in 0..n] ==
            IF i = 0 THEN list
            ELSE LET k == KeyAt[i]
                     prev == F[i - 1]
                     ext == IF Len(prev) <= k
                            THEN prev \o [j \in 1..(k + 1 - Len(prev)) |-> filler]
                            ELSE prev
                 IN [ext EXCEPT ![k + 1] = prefs[k]]
    IN F[n]

FirstOr(list, default) == IF list = << >> THEN default ELSE list[1]

(* list(some_set)[:1]: the first element in the iteration order of this process *)
FirstInHashOrder(set, hash_order) ==
    LET idx == {i \in DOMAIN hash_order : hash_order[i] \in set}
    IN IF idx = {} THEN << >>
       ELSE << hash_order[CHOOSE i \in idx : \A j \in idx : i <= j] >>

mwf_days == {"Monday", "Wednesday", "Friday"}
twth_days == {"Tuesday", "Wednesday", "Thursday"}

(* lines 533-574: the remaining days inferred from the pinned days; None is << >> *)
InferredDays(manual_days, total_frequency, hash_order) ==
    IF manual_days # << >> /\ total_frequency > Len(manual_days)
    THEN IF total_frequency = 2
         THEN CASE "Monday" \in Range(manual_days) -> <<"Wednesday">>
                [] "Tuesday" \in Range(manual_days) -> <<"Thursday">>
                [] "Wednesday" \in Range(manual_days) -> <<"Monday">>
                [] "Thursday" \in Range(manual_days) -> <<"Tuesday">>
                [] "Friday" \in Range(manual_days) -> <<"Monday">>
                [] OTHER -> << >>
         ELSE IF total_frequency = 3
         THEN LET used_days == Range(manual_days)
              IN IF Cardinality(used_days) = 1
                 THEN CASE "Monday" \in used_days -> <<"Wednesday", "Friday">>
                        [] "Wednesday" \in used_days -> <<"Monday", "Friday">>
                        [] "Friday" \in used_days -> <<"Monday", "Wednesday">>
                        [] "Tuesday" \in used_days -> <<"Wednesday", "Thursday">>
                        [] "Thursday" \in used_days -> <<"Tuesday", "Wednesday">>
                        [] OTHER -> << >>
                 ELSE IF Cardinality(used_days) = 2
                 THEN IF used_days \subseteq mwf_days
                      THEN FirstInHashOrder(mwf_days \ used_days, hash_order)
                      ELSE IF used_days \subseteq twth_days
                      THEN FirstInHashOrder(twth_days \ used_days, hash_order)
                      ELSE FirstInHashOrder(DaySet \ used_days, hash_order)
                 ELSE << >>
         ELSE << >>
    ELSE << >>

analyze_manual_session_pattern(s, assignments, class_name, total_frequency, hash_order) ==
    IF ~HasKey(assignments, class_name)
    THEN [inferred_days |-> << >>, preferred_period |-> OpenPeriod,
          preferred_room |-> NoneVal, preferred_day |-> NoneVal]
    ELSE
    LET sessions == SessionsOf(assignments, class_name)
        done == Get(s.manually_scheduled_sessions, class_name, {})
        idx == SelectSeq([i \in 1..Len(sessions) |-> i - 1], LAMBDA i : i \in done)
        days0 == [i \in 1..Len(idx) |-> sessions[idx[i] + 1].day]
        periods0 == [i \in 1..Len(idx) |-> sessions[idx[i] + 1].period]
        rooms0 == [i \in 1..Len(idx) |-> sessions[idx[i] + 1].room]
        rooms1 == ApplyPreferences(rooms0, Get(s.manual_room_preferences, class_name,
                                               EmptyDict), NoneVal)
        periods1 == ApplyPreferences(periods0, Get(s.manual_period_preferences,
                                                   class_name, EmptyDict), OpenPeriod)
        days1 == ApplyPreferences(days0, Get(s.manual_day_preferences, class_name,
                                             EmptyDict), NoneVal)
        manual_periods == SelectSeq(periods1, LAMBDA q : q # OpenPeriod)
        manual_rooms == SelectSeq(rooms1, LAMBDA r : r \notin {NoneVal, "", "Open"})
        manual_days == SelectSeq(days1, LAMBDA d : d \notin {"Open", NoneVal})
    IN [inferred_days |-> InferredDays(manual_days, total_frequency, hash_order),
        preferred_period |-> FirstOr(manual_periods, OpenPeriod),
        preferred_room |-> FirstOr(manual_rooms, NoneVal),
        preferred_day |-> FirstOr(manual_days, NoneVal)]


(***************************************************************************)
(* Placement search (generate_schedule_internal, second phase)             *)
(***************************************************************************)
CorePeriodsMut == {}
CorePeriods == {2, 4, 5, 6}

class_priority(class_info) ==
    LET student_count == Len(parse_students(class_info.Students))
    IN (IF class_info.Class \in DOMAIN manual_period_assignments THEN 10000 ELSE 0)
       + (IF IsComputerCourse(class_info.Course) THEN 2000 ELSE 0)
       + (IF student_count > ChapelThreshold THEN 2000 ELSE 0)
       + student_count * 10
       + get_class_frequency(class_info.Units) * 100

(* sorted(classes, key=class_priority, reverse=True): stable, highest first *)
RECURSIVE SortByPriority(_)
SortByPriority(classes) ==
    IF classes = << >> THEN << >>
    ELSE LET best == CHOOSE i \in DOMAIN classes :
                        /\ \A j \in DOMAIN classes :
                               class_priority(classes[j]) <= class_priority(classes[i])
                        /\ \A j \in 1..(i - 1) :
                               class_priority(classes[j]) < class_priority(classes[i])
         IN <<classes[best]>>
            \o SortByPriority(List([k \in 1..(Len(classes) - 1) |->
                                       IF k < best THEN classes[k] ELSE classes[k + 1]]))

get_option_priority_score(period, day_option, frequency) ==
    (CASE period \in CorePeriods -> 100
       [] period = 1 -> 20
       [] period = 7 -> 5
       [] period \in {8, 9, 10} -> 80
       [] OTHER -> 0)
    + (IF frequency = 2 /\ day_option = <<"Tuesday", "Thursday">> THEN 50
       ELSE IF frequency = 3 /\ day_option = <<"Monday", "Wednesday", "Friday">> THEN 50
       ELSE 10)

Flatten(seqs) ==
    LET F[i \in 0..Len(seqs)] == IF i = 0 THEN << >> ELSE F[i - 1] \o seqs[i]
    IN F[Len(seqs)]

NonEmpty(groups) == SelectSeq(groups, LAMBDA g : g # << >>)

Without(group, period) == SelectSeq(group, LAMBDA q : q # period)

(* the relaxed configuration trying period 2 after the other core periods *)
PeriodGroupsRelaxedLate(class_name, preferred_period, use_period_7, aggressive_core_filling) ==
    IF class_name \in DOMAIN manual_period_assignments
    THEN << <<manual_period_assignments[class_name]>> >>
    ELSE IF preferred_period # OpenPeriod
    THEN << <<preferred_period>> >>
         \o NonEmpty(<< Without(<<2, 4, 5, 6>>, preferred_period),
                        Without(<<1>>, preferred_period),
                        Without(IF use_period_7 THEN <<7>> ELSE << >>, preferred_period) >>)
    ELSE IF aggressive_core_filling
    THEN NonEmpty(<< <<2, 4, 5, 6>>, <<1>>, IF use_period_7 THEN <<7>> ELSE << >> >>)
    ELSE NonEmpty(<< <<4, 5, 6, 2>>, IF use_period_7 THEN <<1, 7>> ELSE <<1>> >>)

(* lines 1365-1396: the periods a class is tried in, in order *)
PeriodGroups(class_name, preferred_period, use_period_7, aggressive_core_filling) ==
    IF class_name \in DOMAIN manual_period_assignments
    THEN << <<manual_period_assignments[class_name]>> >>
    ELSE IF preferred_period # OpenPeriod
    THEN << <<preferred_period>> >>
         \o NonEmpty(<< Without(<<2, 4, 5, 6>>, preferred_period),
                        Without(<<1>>, preferred_period),
                        Without(IF use_period_7 THEN <<7>> ELSE << >>, preferred_period) >>)
    ELSE IF aggressive_core_filling
    THEN NonEmpty(<< <<2, 4, 5, 6>>, <<1>>, IF use_period_7 THEN <<7>> ELSE << >> >>)
    ELSE NonEmpty(<< <<2, 4, 5, 6>>, IF use_period_7 THEN <<1, 7>> ELSE <<1>> >>)

(* lines 1319-1327: the day patterns before the pinned days are removed *)
DayOptions(inferred_days, remaining_sessions_needed) ==
    IF inferred_days # << >>
    THEN << inferred_days >>
         \o SelectSeq(get_preferred_days(remaining_sessions_needed),
                      LAMBDA opt : opt # inferred_days)
    ELSE get_preferred_days(remaining_sessions_needed)

(* lines 1329-1352: drop the days of the class's pinned sessions *)
FilterManualDays(s, assignments, class_name, day_options, remaining_sessions_needed) ==
    IF class_name \notin DOMAIN s.manually_scheduled_sessions THEN day_options
    ELSE
    LET sessions == IF HasKey(assignments, class_name)
                    THEN SessionsOf(assignments, class_name) ELSE << >>
        manually_used_days ==
            {sessions[i + 1].day : i \in {j \in s.manually_scheduled_sessions[class_name] :
                                            /\ j < Len(sessions)
                                            /\ sessions[j + 1].day # "Open"}}
        Avail(opt) == SelectSeq(opt, LAMBDA d : d \notin manually_used_days)
        kept == SelectSeq([i \in DOMAIN day_options |-> Avail(day_options[i])],
                          LAMBDA a : Len(a) = remaining_sessions_needed)
    IN IF kept # << >> THEN kept ELSE day_options

SearchAndPlaceMut(s, class_info, frequency, day_options, period_groups, preferred_period, preferred_room) ==
    LET periods == Flatten(period_groups)
        nd == Len(day_options)
        n == Len(periods) * nd
        PeriodAt(k) == periods[((k - 1) \div nd) + 1]
        OptionAt(k) == day_options[((k - 1) % nd) + 1]
    IN With({k \in 1..n :
                can_schedule_class(s.schedule, class_info, OptionAt(k), PeriodAt(k),
                                   s.assigned_rooms, preferred_room) = << >>},
            LAMBDA feasible :
       With({k \in feasible : \/ PeriodAt(k) \in CorePeriods
                              \/ preferred_period = PeriodAt(k)}, LAMBDA now :
       IF now # {}
       THEN With(CHOOSE i \in now : \A j \in now : i <= j, LAMBDA k :
            schedule_class(s, class_info, OptionAt(k), PeriodAt(k), preferred_room))
       ELSE IF feasible # {}
       THEN With(CHOOSE i \in feasible : \A j \in feasible : i <= j, LAMBDA k :
            schedule_class(s, class_info, OptionAt(k), PeriodAt(k), preferred_room))
       ELSE [s EXCEPT !.unscheduled_classes = Append(@, class_info.Class)]))

(* lines 1398-1446: the search for one class that still needs sessions *)
SearchAndPlace(s, class_info, frequency, day_options, period_groups, preferred_period, preferred_room) ==
    LET periods == Flatten(period_groups)
        nd == Len(day_options)
        n == Len(periods) * nd
        PeriodAt(k) == periods[((k - 1) \div nd) + 1]
        OptionAt(k) == day_options[((k - 1) % nd) + 1]
        Immediate(k) == \/ PeriodAt(k) \in CorePeriods
                        \/ class_info.Class \in DOMAIN manual_period_assignments
                        \/ preferred_period = PeriodAt(k)
        Score(k) == get_option_priority_score(PeriodAt(k), OptionAt(k), frequency)
    IN With({k \in 1..n :
                can_schedule_class(s.schedule, class_info, OptionAt(k), PeriodAt(k),
                                   s.assigned_rooms, preferred_room) = << >>},
            LAMBDA feasible :
       With({k \in feasible : Immediate(k)}, LAMBDA now :
       IF now # {}
       THEN With(CHOOSE i \in now : \A j \in now : i <= j, LAMBDA k :
            schedule_class(s, class_info, OptionAt(k), PeriodAt(k), preferred_room))
       ELSE IF feasible # {}
       THEN With(CHOOSE i \in feasible :
                    /\ \A j \in feasible : Score(j) <= Score(i)
                    /\ \A j \in feasible : j < i => Score(j) < Score(i),
                 LAMBDA k :
            schedule_class(s, class_info, OptionAt(k), PeriodAt(k), preferred_room))
       ELSE [s EXCEPT !.unscheduled_classes = Append(@, class_info.Class)]))

RemainingSessionsNeeded(s, class_info) ==
    get_class_frequency(class_info.Units)
    - Cardinality(Get(s.manually_scheduled_sessions, class_info.Class, {}))

(* lines 1297-1446: one class of the sorted list *)
AutoScheduleClass(s, assignments, class_info, use_period_7, aggressive_core_filling, hash_order) ==
    LET frequency == get_class_frequency(class_info.Units)
        remaining_sessions_needed == RemainingSessionsNeeded(s, class_info)
    IN IF remaining_sessions_needed <= 0 THEN s
       ELSE
       With(analyze_manual_session_pattern(s, assignments, class_info.Class,
                                           frequency, hash_order),
            LAMBDA manual_pattern :
       SearchAndPlace(s, class_info, frequency,
                      (* day_options *)
                      FilterManualDays(s, assignments, class_info.Class,
                                       DayOptions(manual_pattern.inferred_days,
                                                  remaining_sessions_needed),
                                       remaining_sessions_needed),
                      (* period_groups *)
                      PeriodGroups(class_info.Class, manual_pattern.preferred_period,
                                   use_period_7, aggressive_core_filling),
                      manual_pattern.preferred_period, manual_pattern.preferred_room))

SlotOrderMut == List([k \in 1..(Len(DAYS) * LastPeriod - 1) |->
                         [day |-> DAYS[((k - 1) \div LastPeriod) + 1],
                          period |-> ((k - 1) % LastPeriod) + 1]])
(* the sessions of a class in the order the grid is walked: day, period, position *)
SlotOrder == List([k \in 1..(Len(DAYS) * LastPeriod) |->
                      [day |-> DAYS[((k - 1) \div LastPeriod) + 1],
                       period |-> ((k - 1) % LastPeriod) + 1]])

ScheduledInstances(schedule, class_name) ==
    SelectSeq(SlotOrder,
              LAMBDA sl : \E i \in DOMAIN schedule[sl.day][sl.period] :
                             schedule[sl.day][sl.period][i] = class_name)

(* apply_room_preferences: the preferred room of session i goes to the i-th instance *)
apply_room_preferences(s) ==
    LET names == DOMAIN s.manual_room_preferences
        Apply(ra, class_name) ==
            LET inst == ScheduledInstances(s.schedule, class_name)
                prefs == s.manual_room_preferences[class_name]
                hit == {i \in DOMAIN prefs : i < Len(inst)}
            IN Dict([key \in DOMAIN ra \cup
                        {<<inst[i + 1].day, inst[i + 1].period, class_name>> : i \in hit} |->
                   IF \E i \in hit :
                         key = <<inst[i + 1].day, inst[i + 1].period, class_name>>
                   THEN prefs[CHOOSE i \in hit :
                                 key = <<inst[i + 1].day, inst[i + 1].period, class_name>>]
                   ELSE ra[key]])
        order == SelectSeq([i \in DOMAIN classes_data |-> classes_data[i].Class],
                           LAMBDA c : c \in names)
        F[i \in 0..Len(order)] ==
            IF i = 0 THEN s.room_assignments ELSE Apply(F[i - 1], order[i])
    IN [s EXCEPT !.room_assignments = F[Len(order)]]

(* generate_schedule_internal: the run's final state; success is no unscheduled class *)
generate_schedule_internal(classes, assignments, use_period_7, aggressive_core_filling, hash_order) ==
    With(SortByPriority(classes), LAMBDA sorted_classes :
    apply_room_preferences(
        Fold(LAMBDA run, i :
                 AutoScheduleClass(run, assignments, sorted_classes[i],
                                   use_period_7, aggressive_core_filling, hash_order),
             ProcessManualAssignments(classes, assignments),
             Len(sorted_classes))))


(***************************************************************************)
(* Orchestrator (ClassScheduler.generate_schedule)                         *)
(***************************************************************************)
PeriodUsage(schedule, period) ==
    LET F[i \in 0..Len(DAYS)] ==
            IF i = 0 THEN 0 ELSE F[i - 1] + Len(schedule[DAYS[i]][period])
    IN F[Len(DAYS)]

evaluate_solution_quality(schedule) ==
    LET u(period) == PeriodUsage(schedule, period)
    IN u(2) * 10 + u(4) * 10 + u(5) * 10 + u(6) * 10
       - u(1) * 5 - u(7) * 20 - u(11) * 10
       + u(8) * 8 + u(9) * 8 + u(10) * 8

TotalScheduled(schedule) ==
    LET F[p \in 0..LastPeriod] ==
            IF p = 0 THEN 0 ELSE F[p - 1] + PeriodUsage(schedule, p)
    IN F[LastPeriod]

(* lines 753-767: the configurations, the permissive fallback last *)
Approaches(use_period_7) ==
    << [use_p7 |-> FALSE, aggressive_core |-> TRUE],
       [use_p7 |-> FALSE, aggressive_core |-> FALSE] >>
    \o (IF use_period_7
        THEN << [use_p7 |-> TRUE, aggressive_core |-> TRUE],
                [use_p7 |-> TRUE, aggressive_core |-> FALSE] >>
        ELSE << >>)
    \o << [use_p7 |-> TRUE, aggressive_core |-> FALSE] >>

BestSolutionMut(runs) ==
    LET complete == {i \in DOMAIN runs : runs[i].unscheduled_classes = << >>}
    IN IF complete = {} THEN 0
       ELSE CHOOSE i \in complete : \A j \in complete : j <= i

(* lines 769-826: the complete run of highest score, the earliest on a tie; 0 if none *)
BestSolution(runs) ==
    LET complete == {i \in DOMAIN runs : runs[i].unscheduled_classes = << >>}
        Score(i) == evaluate_solution_quality(runs[i].schedule)
    IN IF complete = {} THEN 0
       ELSE CHOOSE i \in complete :
               /\ \A j \in complete : Score(j) <= Score(i)
               /\ \A j \in complete : j < i => Score(j) < Score(i)

(* lines 889-934: fewest unscheduled classes, then highest adjusted score; 0 if none *)
BestPartial(runs) ==
    LET some == {i \in DOMAIN runs : TotalScheduled(runs[i].schedule) > 0}
        Unsched(i) == Len(runs[i].unscheduled_classes)
        Adjusted(i) == evaluate_solution_quality(runs[i].schedule)
                       + TotalScheduled(runs[i].schedule) * 50 - Unsched(i) * 100
        Better(i, j) == \/ Unsched(i) < Unsched(j)
                        \/ Unsched(i) = Unsched(j) /\ Adjusted(i) > Adjusted(j)
    IN IF some = {} THEN 0
       ELSE CHOOSE i \in some :
               /\ \A j \in some : ~Better(j, i)
               /\ \A j \in some : j < i => Better(i, j)

(* line 945: len(unscheduled) <= len(self.classes) * 0.1 *)
PartialThresholdDen == 10

AcceptPartialMut(unscheduled, classes) == TRUE
AcceptPartial(unscheduled, classes) ==
    Len(unscheduled) * PartialThresholdDen <= Len(classes)

(* the scheduler object after generate_schedule, with the pair it returned *)
generate_schedule(classes, assignments, use_period_7, hash_order) ==
    With(Approaches(use_period_7), LAMBDA approaches :
    With(List([i \in DOMAIN approaches |->
                 generate_schedule_internal(classes, assignments,
                                            approaches[i].use_p7,
                                            approaches[i].aggressive_core,
                                            hash_order)]),
         LAMBDA runs :
    With(runs[Len(runs)], LAMBDA last :
    With(BestSolution(runs), LAMBDA best :
    With(BestPartial(runs), LAMBDA partial :
    LET Result(run, success, unscheduled) ==
            [schedule |-> run.schedule,
             room_assignments |-> run.room_assignments,
             assigned_rooms |-> run.assigned_rooms,
             manually_scheduled_sessions |-> run.manually_scheduled_sessions,
             unscheduled_classes |-> run.unscheduled_classes,
             manual_conflicts |-> last.manual_conflicts,
             classes |-> classes,
             session_assignments |-> assignments,
             use_period_7 |-> use_period_7,
             success |-> success,
             unscheduled |-> unscheduled]
    IN IF best # 0 THEN Result(runs[best], TRUE, << >>)
       ELSE IF partial # 0
       THEN IF AcceptPartial(runs[partial].unscheduled_classes, classes)
            THEN Result(runs[partial], TRUE, << >>)
            ELSE Result(runs[partial], FALSE, runs[partial].unscheduled_classes)
       ELSE Result(last, FALSE, last.unscheduled_classes))))))


(***************************************************************************)
(* Grid snapshot (current_schedule): [day -> [period -> sequence of        *)
(* entries [Class, room, sessionIndex]]]; None is NoSchedule.              *)
(***************************************************************************)
NoSchedule == << >>

(* the entries of a grid in the order it is walked, each with its slot *)
GridEntries(grid) ==
    LET at == UNION {{<<k, i>> : i \in DOMAIN grid[SlotOrder[k].day][SlotOrder[k].period]} :
                        k \in DOMAIN SlotOrder}
        Before(e) == {f \in at : f[1] < e[1] \/ (f[1] = e[1] /\ f[2] < e[2])}
    IN List([n \in 1..Cardinality(at) |->
           LET e == CHOOSE f \in at : Cardinality(Before(f)) = n - 1
           IN [day |-> SlotOrder[e[1]].day, period |-> SlotOrder[e[1]].period,
               entry |-> grid[SlotOrder[e[1]].day][SlotOrder[e[1]].period][e[2]]]])

(* lines 1684-1718: room and sessionIndex of every scheduled class *)
EnhancedSchedule(schedule, room_assignments) ==
    LET names == GridEntries(schedule)
        Counter(day, period, i) ==
            LET at == CHOOSE n \in DOMAIN names :
                         /\ names[n].day = day /\ names[n].period = period
                         /\ Cardinality({m \in 1..n : /\ names[m].day = day
                                                      /\ names[m].period = period}) = i
            IN Cardinality({m \in 1..(at - 1) : names[m].entry = names[at].entry})
    IN Dict([day \in DaySet |-> List([period \in Periods |->
           List([i \in DOMAIN schedule[day][period] |->
               [Class |-> schedule[day][period][i],
                room |-> Get(room_assignments,
                             <<day, period, schedule[day][period][i]>>, "TBD"),
                sessionIndex |-> Counter(day, period, i)]])])])

convert_schedule_to_sessions(schedule, selected) ==
    LET entries == GridEntries(schedule)
        Of(class_name) ==
            LET mine == SelectSeq(entries, LAMBDA e : e.entry.Class = class_name)
            IN List([j \in DOMAIN mine |->
                   [day |-> mine[j].day, period |-> mine[j].period,
                    room |-> mine[j].entry.room]])
    IN List([i \in DOMAIN selected |->
                [cls |-> selected[i], sessions |-> Of(selected[i])]])

(* lines 1848-1887: the number of sessions the route expects; 0 is the error case *)
NumSessions(units) ==
    CASE units = 4 -> 1
      [] units = 8 -> 2
      [] units = 12 -> 3
      [] OTHER -> 0

(* lines 1852-1922: the grid written back as session assignments *)
UpdatedSessionAssignments(enhanced_schedule, selected) ==
    LET placed == convert_schedule_to_sessions(enhanced_schedule, selected)
    IN List([i \in DOMAIN selected |->
           [cls |-> selected[i],
            sessions |->
                List([j \in 1..NumSessions(ClassInfo(selected[i]).Units) |->
                    IF j <= Len(placed[i].sessions) THEN placed[i].sessions[j]
                    ELSE OpenSession])]])

(* the first selected class whose units are not 4, 8 or 12, or NoneVal *)
InvalidUnitsClass(selected) ==
    LET bad == {i \in DOMAIN selected : NumSessions(ClassInfo(selected[i]).Units) = 0}
    IN IF bad = {} THEN NoneVal ELSE selected[CHOOSE i \in bad : \A j \in bad : i <= j]

ScheduledClassNames(schedule) ==
    {e.entry : e \in Range(GridEntries(schedule))}


(***************************************************************************)
(* Move validator (/api/get_valid_slots, /api/move_class).  A request is   *)
(* [class_name, session_index, current_day, current_period, new_day,       *)
(*  new_period]; get_valid_slots ignores the last two.                     *)
(***************************************************************************)
WithClass(assignments, class_name) ==
    IF HasKey(assignments, class_name) THEN assignments
    ELSE Append(assignments, [cls |-> class_name, sessions |-> << >>])

SetSessions(assignments, class_name, sessions) ==
    List([i \in DOMAIN assignments |->
        IF assignments[i].cls = class_name
        THEN [cls |-> class_name, sessions |-> sessions]
        ELSE assignments[i]])

(* the index of the first session at the given slot, or session_index *)
ResolvedIndex(sessions, current_day, current_period, session_index) ==
    LET hit == {i \in DOMAIN sessions : /\ sessions[i].day = current_day
                                        /\ sessions[i].period = current_period}
    IN IF hit = {} THEN session_index
       ELSE (CHOOSE i \in hit : \A j \in hit : i <= j) - 1

(* lines 2807-2809: while len(list) <= resolved_index: append an Open session *)
PadSessions(sessions, resolved_index) ==
    IF Len(sessions) <= resolved_index
    THEN sessions \o List([j \in 1..(resolved_index + 1 - Len(sessions)) |-> OpenSession])
    ELSE sessions

(* lines 2822-2835: the class of every session at the slot, in dictionary order *)
SessionsInSlotMut(assignments, day, period) == << >>
SessionsInSlot(assignments, day, period) ==
    Flatten([i \in DOMAIN assignments |->
                [j \in DOMAIN SelectSeq(assignments[i].sessions,
                                        LAMBDA x : x.day = day /\ x.period = period) |->
                    assignments[i].cls]])

HasDuplicates(list) == Len(list) > Cardinality(Range(list))

DuplicateClass(class_names_in_slot) == HasDuplicates(class_names_in_slot)

DuplicateTeacherMut(class_names_in_slot) == FALSE
DuplicateTeacher(class_names_in_slot) ==
    HasDuplicates([i \in DOMAIN class_names_in_slot |->
                      ClassInfo(class_names_in_slot[i]).Teacher])

DuplicateStudentMut(class_names_in_slot) == FALSE
DuplicateStudent(class_names_in_slot) ==
    HasDuplicates(Flatten([i \in DOMAIN class_names_in_slot |->
                              parse_students(ClassInfo(class_names_in_slot[i]).Students)]))

(* lines 2792-2927: the decision of move_class on a grid *)
MoveDecision(grid, selected, request) ==
    With(WithClass(convert_schedule_to_sessions(grid, selected), request.class_name),
         LAMBDA session_assignments :
    With(ResolvedIndex(SessionsOf(session_assignments, request.class_name),
                       request.current_day, request.current_period,
                       request.session_index),
         LAMBDA resolved_index :
    With(PadSessions(SessionsOf(session_assignments, request.class_name), resolved_index),
         LAMBDA padded :
    With(padded[resolved_index + 1], LAMBDA original_session :
    With(original_session.room, LAMBDA preserved_room :
    With(SetSessions(session_assignments, request.class_name,
                     [padded EXCEPT ![resolved_index + 1] =
                         [day |-> request.new_day, period |-> request.new_period,
                          room |-> preserved_room]]),
         LAMBDA moved :
    With(SessionsInSlot(moved, request.new_day, request.new_period), LAMBDA in_slot :
       [duplicate_detected |-> \/ DuplicateClass(in_slot)
                               \/ DuplicateTeacher(in_slot)
                               \/ DuplicateStudent(in_slot),
        resolved_index |-> resolved_index,
        preserved_room |-> preserved_room,
        original_session |-> original_session,
        session_assignments |-> moved,
        (* session_assignments[class_name][session_index] = original_session *)
        revert_fails |-> request.session_index >= Len(padded),
        reverted |->
            IF request.session_index >= Len(padded) THEN moved
            ELSE SetSessions(moved, request.class_name,
                             [SessionsOf(moved, request.class_name)
                                 EXCEPT ![request.session_index + 1] =
                                     original_session])])))))))

RemoveAt(list, i) ==
    List([k \in 1..(Len(list) - 1) |-> IF k < i THEN list[k] ELSE list[k + 1]])

(* lines 146-168: the entry of the class in the current slot carrying session_index *)
PreciseRemoval(grid, class_name, session_index, current_day, current_period) ==
    IF current_day \in DaySet /\ current_period \in Periods
    THEN LET hit == {i \in DOMAIN grid[current_day][current_period] :
                        /\ grid[current_day][current_period][i].Class = class_name
                        /\ grid[current_day][current_period][i].sessionIndex
                               = session_index}
         IN IF hit = {} THEN NoSlot
            ELSE [found |-> TRUE, day |-> current_day, period |-> current_period,
                  pos |-> CHOOSE i \in hit : \A j \in hit : i <= j]
    ELSE NoSlot

(* lines 170-186: the session_index-th entry of the class in grid order *)
NthOccurrence(grid, class_name, session_index) ==
    LET entries == GridEntries(grid)
        mine == SelectSeq(entries, LAMBDA e : e.entry.Class = class_name)
    IN IF session_index + 1 \in DOMAIN mine
       THEN LET e == mine[session_index + 1]
            IN [found |-> TRUE, day |-> e.day, period |-> e.period,
                pos |-> CHOOSE i \in DOMAIN grid[e.day][e.period] :
                           /\ grid[e.day][e.period][i] = e.entry
                           /\ \A j \in 1..(i - 1) : grid[e.day][e.period][j] # e.entry]
       ELSE NoSlot

(* update_current_schedule_with_move that leaves the moved session without its room *)
update_current_schedule_with_moveNoRoom(grid, class_name, session_index, new_day, new_period, current_day, current_period, preserved_room) ==
    With(NthOccurrence(grid, class_name, session_index), LAMBDA from :
    IF ~from.found THEN grid
    ELSE LET removed == [grid EXCEPT ![from.day][from.period] = RemoveAt(@, from.pos)]
             new_session == [grid[from.day][from.period][from.pos] EXCEPT !.room = "TBD"]
         IN [removed EXCEPT ![new_day][new_period] = Append(@, new_session)])

update_current_schedule_with_moveMut(grid, class_name, session_index, new_day, new_period, current_day, current_period, preserved_room) == grid
update_current_schedule_with_move(grid, class_name, session_index, new_day, new_period, current_day, current_period, preserved_room) ==
    With(PreciseRemoval(grid, class_name, session_index, current_day, current_period),
         LAMBDA precise :
    With(IF precise.found THEN precise
         ELSE NthOccurrence(grid, class_name, session_index),
         LAMBDA from :
    IF ~from.found THEN grid
    ELSE LET session_template == grid[from.day][from.period][from.pos]
             removed == [grid EXCEPT ![from.day][from.period] = RemoveAt(@, from.pos)]
             new_session == [session_template EXCEPT !.room = preserved_room]
         IN [removed EXCEPT ![new_day][new_period] = Append(@, new_session)]))

(* check_slot_conflicts_directly that looks at teachers only *)
check_slot_conflicts_directlyTeachers(filtered_classes_data, session_assignments, target_day, target_period, dragged_class_name, dragged_session_index) ==
    LET One(class_name, session) ==
            IF /\ session.day = target_day /\ session.period = target_period
               /\ class_name # dragged_class_name
               /\ ClassInfo(dragged_class_name).Teacher = ClassInfo(class_name).Teacher
            THEN << [type |-> "teacher", with |-> class_name] >> ELSE << >>
    IN Flatten([i \in DOMAIN session_assignments |->
                   Flatten([j \in DOMAIN session_assignments[i].sessions |->
                               One(session_assignments[i].cls,
                                   session_assignments[i].sessions[j])])])

(* check_slot_conflicts_directly: the conflicts of the dragged session at a slot *)
check_slot_conflicts_directly(filtered_classes_data, session_assignments, target_day, target_period, dragged_class_name, dragged_session_index) ==
    IF \A i \in DOMAIN filtered_classes_data :
           filtered_classes_data[i].Class # dragged_class_name
    THEN << >>
    ELSE
    LET dragged_class_info == ClassInfo(dragged_class_name)
        Known(class_name) == \E i \in DOMAIN filtered_classes_data :
                                 filtered_classes_data[i].Class = class_name
        One(class_name, session_idx, session) ==
            IF session.day # target_day \/ session.period # target_period THEN << >>
            ELSE IF class_name = dragged_class_name /\ session_idx = dragged_session_index
            THEN << >>
            ELSE IF class_name = dragged_class_name
            THEN << [type |-> "same_class", with |-> class_name] >>
            ELSE IF ~Known(class_name) THEN << >>
            ELSE (IF dragged_class_info.Teacher = ClassInfo(class_name).Teacher
                  THEN << [type |-> "teacher", with |-> class_name] >> ELSE << >>)
                 \o (IF StudentSet(dragged_class_info) \cap StudentSet(ClassInfo(class_name))
                        # {}
                     THEN << [type |-> "student", with |-> class_name] >> ELSE << >>)
    IN Flatten([i \in DOMAIN session_assignments |->
                   Flatten([j \in DOMAIN session_assignments[i].sessions |->
                               One(session_assignments[i].cls, j - 1,
                                   session_assignments[i].sessions[j])])])

(* lines 2707-2713: the assignments with the dragged session tried at a slot *)
TempAssignments(assignments, class_name, resolved_index, day, period) ==
    LET trial == [day |-> day, period |-> period, room |-> "Open"]
    IN IF /\ HasKey(assignments, class_name)
          /\ Len(SessionsOf(assignments, class_name)) > resolved_index
       THEN SetSessions(assignments, class_name,
                        [SessionsOf(assignments, class_name)
                            EXCEPT ![resolved_index + 1] = trial])
       ELSE SetSessions(WithClass(assignments, class_name), class_name, <<trial>>)

(* lines 2686-2756: the validity map of get_valid_slots on a grid *)
ValidSlots(grid, selected, request) ==
    With(convert_schedule_to_sessions(grid, selected),
         LAMBDA filtered_session_assignments :
    With(SelectSeq(classes_data, LAMBDA c : c.Class \in Range(selected)),
         LAMBDA filtered_classes_data :
    With(IF HasKey(filtered_session_assignments, request.class_name)
         THEN ResolvedIndex(SessionsOf(filtered_session_assignments, request.class_name),
                            request.current_day, request.current_period,
                            request.session_index)
         ELSE request.session_index,
         LAMBDA resolved_index :
    With(SelectSeq(SlotOrder,
                   LAMBDA sl : ~(sl.day = request.current_day
                                 /\ sl.period = request.current_period)),
         LAMBDA slots :
    List([k \in DOMAIN slots |->
        With(check_slot_conflicts_directly(
                 filtered_classes_data,
                 TempAssignments(filtered_session_assignments, request.class_name,
                                 resolved_index, slots[k].day, slots[k].period),
                 slots[k].day, slots[k].period, request.class_name, resolved_index),
             LAMBDA conflicts :
        [day |-> slots[k].day, period |-> slots[k].period,
         valid |-> conflicts = << >>, conflicts |-> conflicts])])))))


(***************************************************************************)
(* The process: the module-level variables of src/app.py, the file         *)
(* last_schedule.json, the ClassScheduler object of the latest             *)
(* /generate_schedule request and the latest response.                     *)
(***************************************************************************)
VARIABLES selected_classes, manual_session_assignments, current_schedule,
          last_schedule_file, scheduler, response, hash_order, generations, moves,
          in_flight

vars == <<selected_classes, manual_session_assignments, current_schedule,
          last_schedule_file, scheduler, response, hash_order, generations, moves,
          in_flight>>

MaxThreads == 2

(* the request threads of the server; in_flight[t] is the move request that *)
(* thread t has validated and not yet written to the grid, in a list that   *)
(* is empty when the thread is idle                                         *)
Threads == 1..MaxThreads

NoFile == [exists |-> FALSE, selected_classes |-> << >>, session_assignments |-> << >>]

SavedFile(selected, assignments) ==
    [exists |-> TRUE, selected_classes |-> selected, session_assignments |-> assignments]

NoScheduler ==
    [schedule |-> EmptyGrid, room_assignments |-> EmptyDict, assigned_rooms |-> {},
     manually_scheduled_sessions |-> EmptyDict, unscheduled_classes |-> << >>,
     manual_conflicts |-> << >>, classes |-> << >>, session_assignments |-> << >>,
     use_period_7 |-> FALSE, success |-> FALSE, unscheduled |-> << >>]

(* the iteration orders of a set of day names this process may have *)
HashOrders == { DAYS, <<"Friday", "Thursday", "Wednesday", "Tuesday", "Monday">> }

MaxGenerations == 1
MaxMoves == 2

Init ==
    /\ selected_classes = << >>
    /\ manual_session_assignments = << >>
    /\ current_schedule = NoSchedule
    /\ last_schedule_file = NoFile
    /\ scheduler = NoScheduler
    /\ response = [op |-> "none", success |-> TRUE]
    /\ hash_order \in HashOrders
    /\ generations = 0
    /\ moves = 0
    /\ in_flight = [t \in Threads |-> << >>]

(* /set_selection that keeps the grid on display *)
SetSelectionKeepsGrid(data) ==
    LET kept == SelectSeq(data.session_assignments,
                          LAMBDA a : a.cls \in Range(data.selected_classes))
    IN /\ selected_classes' = data.selected_classes
       /\ manual_session_assignments' = kept
       /\ last_schedule_file' = SavedFile(data.selected_classes, kept)
       /\ scheduler' = NoScheduler
       /\ response' = [op |-> "set_selection", success |-> TRUE,
                       selected_count |-> Len(data.selected_classes)]
       /\ generations' = 0
       /\ moves' = 0
       /\ UNCHANGED <<current_schedule, hash_order, in_flight>>

(* /set_selection with the body [selected_classes, session_assignments] *)
SetSelection(data) ==
    LET kept == SelectSeq(data.session_assignments,
                          LAMBDA a : a.cls \in Range(data.selected_classes))
    IN /\ selected_classes' = data.selected_classes
       /\ manual_session_assignments' = kept
       /\ current_schedule' = NoSchedule
       /\ last_schedule_file' = SavedFile(data.selected_classes, kept)
       /\ scheduler' = NoScheduler
       /\ response' = [op |-> "set_selection", success |-> TRUE,
                       selected_count |-> Len(data.selected_classes)]
       /\ generations' = 0
       /\ moves' = 0
       /\ UNCHANGED <<hash_order, in_flight>>

(* /load_saved_schedule *)
LoadSavedSchedule ==
    /\ IF last_schedule_file.exists
       THEN /\ selected_classes' = last_schedule_file.selected_classes
            /\ manual_session_assignments' = last_schedule_file.session_assignments
            /\ response' = [op |-> "load_saved_schedule", success |-> TRUE]
       ELSE /\ response' = [op |-> "load_saved_schedule", success |-> FALSE]
            /\ UNCHANGED <<selected_classes, manual_session_assignments>>
    /\ UNCHANGED <<current_schedule, last_schedule_file, scheduler, hash_order,
                   in_flight,
                   generations, moves>>


GenerateResponseMut(result, classes_to_schedule) ==
    LET scheduled_class_names == ScheduledClassNames(result.schedule)
        input_class_names == {classes_to_schedule[i].Class :
                                 i \in DOMAIN classes_to_schedule}
        missing_class_names == input_class_names \ scheduled_class_names
    IN [op |-> "generate_schedule", success |-> TRUE, error |-> "",
        use_period_7 |-> result.use_period_7,
        partial_schedule |-> missing_class_names # {},
        unscheduled |-> result.unscheduled,
        scheduling_errors |-> missing_class_names,
        manual_assignment_blocked |-> << >>,
        manual_assignment_warnings |-> << >>]

(* lines 1735-1841: the body of the response when something was scheduled *)
GenerateResponse(result, classes_to_schedule) ==
    LET scheduled_class_names == ScheduledClassNames(result.schedule)
        input_class_names == {classes_to_schedule[i].Class :
                                 i \in DOMAIN classes_to_schedule}
        missing_class_names == input_class_names \ scheduled_class_names
        blocked == SelectSeq(result.manual_conflicts,
                             LAMBDA c : c.class \notin scheduled_class_names)
        ignored == SelectSeq(result.manual_conflicts,
                             LAMBDA c : c.class \in scheduled_class_names)
    IN [op |-> "generate_schedule", success |-> TRUE, error |-> "",
        use_period_7 |-> result.use_period_7,
        partial_schedule |-> \/ missing_class_names # {}
                             \/ result.manual_conflicts # << >>,
        unscheduled |-> result.unscheduled,
        scheduling_errors |-> missing_class_names,
        manual_assignment_blocked |-> blocked,
        manual_assignment_warnings |-> ignored]

GenerateError(use_period_7, error) ==
    [op |-> "generate_schedule", success |-> FALSE, error |-> error,
     use_period_7 |-> use_period_7, partial_schedule |-> FALSE, unscheduled |-> << >>,
     scheduling_errors |-> {}, manual_assignment_blocked |-> << >>,
     manual_assignment_warnings |-> << >>]

(* /generate_schedule with the body [use_period_7] *)
Generate(use_period_7) ==
    /\ generations < MaxGenerations
    /\ generations' = generations + 1
    /\ UNCHANGED <<selected_classes, hash_order, in_flight, moves>>
    /\ LET classes_to_schedule ==
               SelectSeq(classes_data, LAMBDA c : c.Class \in Range(selected_classes))
       IN IF selected_classes = << >> \/ classes_to_schedule = << >>
          THEN /\ response' = GenerateError(use_period_7,
                                   IF selected_classes = << >> THEN "No classes selected"
                                   ELSE "Selected classes not found in data")
               /\ UNCHANGED <<manual_session_assignments, current_schedule,
                              last_schedule_file, scheduler>>
          ELSE
          \E result \in {generate_schedule(classes_to_schedule, manual_session_assignments,
                                           use_period_7, hash_order)} :
          \E enhanced_schedule \in {EnhancedSchedule(result.schedule,
                                                     result.room_assignments)} :
          \E scheduled_count \in {Cardinality(ScheduledClassNames(result.schedule))} :
             /\ scheduler' = result
             /\ current_schedule' = enhanced_schedule
             /\ IF result.success \/ scheduled_count > 0
                THEN IF result.success /\ manual_session_assignments = << >>
                     THEN IF InvalidUnitsClass(selected_classes) # NoneVal
                          THEN /\ response' = [GenerateError(use_period_7,
                                                   "Invalid credit hours")
                                               EXCEPT !.scheduling_errors =
                                                   {InvalidUnitsClass(selected_classes)}]
                               /\ UNCHANGED <<manual_session_assignments,
                                              last_schedule_file>>
                          ELSE \E updated_session_assignments \in
                                       {UpdatedSessionAssignments(enhanced_schedule,
                                                                  selected_classes)} :
                                  /\ manual_session_assignments' =
                                         updated_session_assignments
                                  /\ last_schedule_file' =
                                         SavedFile(selected_classes,
                                                   updated_session_assignments)
                                  /\ response' = GenerateResponse(result,
                                                                  classes_to_schedule)
                     ELSE /\ last_schedule_file' =
                                 SavedFile(selected_classes, manual_session_assignments)
                          /\ response' = GenerateResponse(result, classes_to_schedule)
                          /\ UNCHANGED manual_session_assignments
                ELSE /\ response' = [GenerateError(use_period_7,
                                         "Could not schedule any classes")
                                     EXCEPT !.unscheduled = result.unscheduled]
                     /\ UNCHANGED <<manual_session_assignments, last_schedule_file>>

(* the requests the page can send for a displayed session *)
DragRequests(grid) ==
    IF grid = NoSchedule THEN {}
    ELSE {[class_name |-> e.entry.Class, session_index |-> e.entry.sessionIndex,
           current_day |-> e.day, current_period |-> e.period] :
             e \in Range(GridEntries(grid))}

(* a request for a class when nothing is displayed *)
BlindRequest ==
    [class_name |-> classes_data[1].Class, session_index |-> 0,
     current_day |-> DAYS[1], current_period |-> 2]

NoGridError(op, request) ==
    [op |-> op, success |-> FALSE, request |-> request,
     error |-> "No generated schedule found"]

GetValidSlotsMut ==
    /\ current_schedule # NoSchedule
    /\ \E drag \in DragRequests(current_schedule) :
          /\ response' = [op |-> "get_valid_slots", success |-> TRUE, request |-> drag,
                          valid_slots |-> ValidSlots(current_schedule, selected_classes,
                                                     drag)]
          /\ current_schedule' =
                 update_current_schedule_with_move(
                     current_schedule, drag.class_name, drag.session_index,
                     DAYS[1], LastPeriod, drag.current_day, drag.current_period, "Open")
    /\ UNCHANGED <<selected_classes, manual_session_assignments, last_schedule_file,
                   scheduler, hash_order, in_flight, generations, moves>>
(* /api/get_valid_slots *)
GetValidSlots ==
    /\ \E drag \in DragRequests(current_schedule) \cup
                   (IF current_schedule = NoSchedule THEN {BlindRequest} ELSE {}) :
          response' =
              IF current_schedule = NoSchedule THEN NoGridError("get_valid_slots", drag)
              ELSE [op |-> "get_valid_slots", success |-> TRUE, request |-> drag,
                    valid_slots |-> ValidSlots(current_schedule, selected_classes, drag)]
    /\ UNCHANGED <<selected_classes, manual_session_assignments, current_schedule,
                   last_schedule_file, scheduler, hash_order, in_flight, generations,
                   moves>>

(* the slots sessions are dropped on *)
MoveTargets ==
    { [day |-> "Wednesday", period |-> 2], [day |-> "Tuesday", period |-> 2],
      [day |-> "Monday", period |-> 4] }

(* /api/move_class *)
MoveClass ==
    /\ moves < MaxMoves
    /\ moves' = moves + 1
    /\ UNCHANGED <<selected_classes, scheduler, hash_order, in_flight, generations>>
    /\ \E drag \in DragRequests(current_schedule) \cup
                   (IF current_schedule = NoSchedule THEN {BlindRequest} ELSE {}),
          target \in MoveTargets :
          LET request == [class_name |-> drag.class_name,
                          session_index |-> drag.session_index,
                          current_day |-> drag.current_day,
                          current_period |-> drag.current_period,
                          new_day |-> target.day, new_period |-> target.period]
          IN IF current_schedule = NoSchedule
             THEN /\ response' = NoGridError("move_class", request)
                  /\ UNCHANGED <<manual_session_assignments, current_schedule,
                                 last_schedule_file>>
             ELSE
             \E decision \in {MoveDecision(current_schedule, selected_classes, request)} :
                IF decision.duplicate_detected
                THEN /\ response' = [op |-> "move_class", success |-> FALSE,
                                     request |-> request,
                                     error |-> IF decision.revert_fails
                                               THEN "list assignment index out of range"
                                               ELSE "Move reverted"]
                     /\ last_schedule_file' =
                            IF decision.revert_fails THEN last_schedule_file
                            ELSE SavedFile(selected_classes, decision.reverted)
                     /\ UNCHANGED <<manual_session_assignments, current_schedule>>
                ELSE /\ current_schedule' =
                            update_current_schedule_with_move(
                                current_schedule, request.class_name,
                                decision.resolved_index, request.new_day,
                                request.new_period, request.current_day,
                                request.current_period, decision.preserved_room)
                     /\ manual_session_assignments' = decision.session_assignments
                     /\ last_schedule_file' =
                            SavedFile(selected_classes, decision.session_assignments)
                     /\ response' = [op |-> "move_class", success |-> TRUE,
                                     request |-> request,
                                     room |-> decision.preserved_room]


(***************************************************************************)
(* /api/move_class served by concurrent threads.  The handler takes no     *)
(* lock: it reads the grid and validates the move (lines 2787-2927), and   *)
(* writes the grid afterwards (lines 2929-2946); another thread may run in *)
(* between.                                                                *)
(***************************************************************************)
(* lines 2787-2927: thread t reads the grid and decides; a refused move is *)
(* answered at once                                                        *)
MoveValidate(t) ==
    /\ in_flight[t] = << >>
    /\ current_schedule # NoSchedule
    /\ moves < MaxMoves
    /\ moves' = moves + 1
    /\ UNCHANGED <<selected_classes, manual_session_assignments, current_schedule,
                   scheduler, hash_order, generations>>
    /\ \E drag \in DragRequests(current_schedule), target \in MoveTargets :
          \E request \in {[class_name |-> drag.class_name,
                           session_index |-> drag.session_index,
                           current_day |-> drag.current_day,
                           current_period |-> drag.current_period,
                           new_day |-> target.day, new_period |-> target.period]} :
          \E decision \in {MoveDecision(current_schedule, selected_classes, request)} :
             IF decision.duplicate_detected
             THEN /\ response' = [op |-> "move_class", success |-> FALSE,
                                  request |-> request,
                                  error |-> IF decision.revert_fails
                                            THEN "list assignment index out of range"
                                            ELSE "Move reverted"]
                  /\ last_schedule_file' =
                         IF decision.revert_fails THEN last_schedule_file
                         ELSE SavedFile(selected_classes, decision.reverted)
                  /\ UNCHANGED in_flight
             ELSE /\ in_flight' = [in_flight EXCEPT
                                      ![t] = <<[request |-> request, decision |-> decision]>>]
                  /\ UNCHANGED <<response, last_schedule_file>>

(* lines 2929-2963: thread t writes its validated move to the grid as it is *)
(* now, stores the assignments it derived and answers                       *)
MoveCommit(t) ==
    /\ in_flight[t] # << >>
    /\ in_flight' = [in_flight EXCEPT ![t] = << >>]
    /\ UNCHANGED <<selected_classes, scheduler, hash_order, generations, moves>>
    /\ \E request \in {in_flight[t][1].request}, decision \in {in_flight[t][1].decision} :
          /\ current_schedule' =
                 IF current_schedule = NoSchedule THEN NoSchedule
                 ELSE update_current_schedule_with_move(
                          current_schedule, request.class_name,
                          decision.resolved_index, request.new_day,
                          request.new_period, request.current_day,
                          request.current_period, decision.preserved_room)
          /\ manual_session_assignments' = decision.session_assignments
          /\ last_schedule_file' =
                 SavedFile(selected_classes, decision.session_assignments)
          /\ response' = [op |-> "move_class", success |-> TRUE,
                          request |-> request, room |-> decision.preserved_room]

(***************************************************************************)
(* Bodies of /set_selection                                                *)
(***************************************************************************)
Pin(day, period, room) == [day |-> day, period |-> period, room |-> room]

(* one Open session per weekly meeting of the class *)
OpenSessions(class_name) ==
    List([j \in 1..get_class_frequency(ClassInfo(class_name).Units) |-> OpenSession])

SessionsWith(class_name, pins) ==
    List([j \in DOMAIN OpenSessions(class_name) |->
        IF j \in DOMAIN pins THEN pins[j] ELSE OpenSession])

Assign(class_name, pins) == [cls |-> class_name, sessions |-> SessionsWith(class_name, pins)]

Selection(selected, assignments) ==
    [selected_classes |-> selected, session_assignments |-> assignments]

(* what the first session of a class may ask for *)
PinOptions ==
    { OpenSession,
      Pin("Monday", 2, "Open"),
      Pin("Monday", 2, "Classroom 2"),
      Pin("Monday", OpenPeriod, "Open"),
      Pin("Open", 2, "Open"),
      Pin("Open", OpenPeriod, "Classroom 2") }

(* what the first session of the second class of a pair may ask for *)
SecondPinOptions ==
    { OpenSession,
      Pin("Monday", 2, "Open"),
      Pin("Monday", 2, "Classroom 2"),
      Pin("Open", 2, "Open") }

(* same teacher; shared student; both lab courses; 4-unit classes sharing a student *)
ClassPairs ==
    { <<"A", "B">>, <<"A", "C">>, <<"C", "F">>, <<"D", "F">> }

PairSelections ==
    { Selection(pair, << Assign(pair[1], <<x>>), Assign(pair[2], <<y>>) >>) :
        <<pair, x, y>> \in ClassPairs \X PinOptions \X SecondPinOptions }

(* nothing pinned: no assignments at all *)
AutoSelections ==
    { Selection(<<"A", "B", "C", "D", "F">>, << >>),
      Selection(<<"A", "B", "C", "D", "E", "F">>, << >>),
      Selection(<<"E">>, << >>),
      Selection(<<"A">>, << >>),
      Selection(<<"K">>, << >>),
      Selection(<<"C", "D", "F">>, << >>) }

SpecialSelections ==
    { (* a period-only pin when that period is taken on every day *)
      Selection(<<"A", "B", "C">>,
                << Assign("A", << Pin("Monday", 2, "Open"), Pin("Tuesday", 2, "Open"),
                                  Pin("Wednesday", 2, "Open") >>),
                   Assign("C", << Pin("Thursday", 2, "Open"), Pin("Friday", 2, "Open") >>),
                   Assign("B", << Pin("Open", 2, "Open") >>) >>),
      (* a class of teacher T1 when T1 is busy on Tuesday and Wednesday in every period *)
      Selection(<<"A", "B", "G", "H", "K">>,
                << Assign("A", << Pin("Tuesday", 1, "Open"), Pin("Tuesday", 2, "Open"),
                                  Pin("Tuesday", 4, "Open") >>),
                   Assign("B", << Pin("Tuesday", 5, "Open"), Pin("Tuesday", 6, "Open"),
                                  Pin("Tuesday", 7, "Open") >>),
                   Assign("G", << Pin("Wednesday", 1, "Open"), Pin("Wednesday", 2, "Open"),
                                  Pin("Wednesday", 4, "Open") >>),
                   Assign("H", << Pin("Wednesday", 5, "Open"), Pin("Wednesday", 6, "Open"),
                                  Pin("Wednesday", 7, "Open") >>) >>),
      (* the same with ten classes selected: one class in ten cannot be placed *)
      Selection(<<"A", "B", "C", "D", "F", "G", "H", "K", "L", "M">>,
                << Assign("A", << Pin("Tuesday", 1, "Open"), Pin("Tuesday", 2, "Open"),
                                  Pin("Tuesday", 4, "Open") >>),
                   Assign("B", << Pin("Tuesday", 5, "Open"), Pin("Tuesday", 6, "Open"),
                                  Pin("Tuesday", 7, "Open") >>),
                   Assign("G", << Pin("Wednesday", 1, "Open"), Pin("Wednesday", 2, "Open"),
                                  Pin("Wednesday", 4, "Open") >>),
                   Assign("H", << Pin("Wednesday", 5, "Open"), Pin("Wednesday", 6, "Open"),
                                  Pin("Wednesday", 7, "Open") >>) >>),
      (* ten classes: teacher T1 is busy on Monday and Wednesday, K has one   *)
      (* session pinned on Thursday and no place for the other two, and the    *)
      (* pin of F meets D, which shares a student with it                      *)
      Selection(<<"A", "B", "C", "D", "F", "G", "H", "K", "L", "M">>,
                << Assign("A", << Pin("Monday", 1, "Open"), Pin("Monday", 2, "Open"),
                                  Pin("Monday", 4, "Open") >>),
                   Assign("B", << Pin("Monday", 5, "Open"), Pin("Monday", 6, "Open"),
                                  Pin("Monday", 7, "Open") >>),
                   Assign("G", << Pin("Wednesday", 1, "Open"), Pin("Wednesday", 2, "Open"),
                                  Pin("Wednesday", 4, "Open") >>),
                   Assign("H", << Pin("Wednesday", 5, "Open"), Pin("Wednesday", 6, "Open"),
                                  Pin("Wednesday", 7, "Open") >>),
                   Assign("K", << Pin("Thursday", 1, "Open") >>),
                   Assign("D", << Pin("Tuesday", 2, "Open") >>),
                   Assign("F", << Pin("Tuesday", 2, "Open") >>) >>),
      (* teacher T1 is busy on Tuesday and Wednesday in the core periods and *)
      (* on Wednesday in period 1                                             *)
      Selection(<<"A", "B", "G", "K">>,
                << Assign("A", << Pin("Tuesday", 2, "Open"), Pin("Tuesday", 4, "Open"),
                                  Pin("Tuesday", 5, "Open") >>),
                   Assign("B", << Pin("Tuesday", 6, "Open"), Pin("Wednesday", 2, "Open"),
                                  Pin("Wednesday", 4, "Open") >>),
                   Assign("G", << Pin("Wednesday", 5, "Open"), Pin("Wednesday", 6, "Open"),
                                  Pin("Wednesday", 1, "Open") >>) >>),
      (* teacher T1 is busy on Wednesday and Thursday in the core periods, and *)
      (* K has one session pinned in period 7                                   *)
      Selection(<<"A", "B", "G", "K">>,
                << Assign("A", << Pin("Wednesday", 2, "Open"), Pin("Wednesday", 4, "Open"),
                                  Pin("Wednesday", 5, "Open") >>),
                   Assign("B", << Pin("Wednesday", 6, "Open"), Pin("Thursday", 2, "Open"),
                                  Pin("Thursday", 4, "Open") >>),
                   Assign("G", << Pin("Thursday", 5, "Open"), Pin("Thursday", 6, "Open"),
                                  Pin("Monday", 1, "Open") >>),
                   Assign("K", << Pin("Monday", 7, "Open") >>) >>),
      (* teacher T1 is busy on Tuesday and Wednesday in periods 1, 2, 4, 5, 6 only *)
      Selection(<<"A", "B", "G", "H", "K">>,
                << Assign("A", << Pin("Tuesday", 1, "Open"), Pin("Tuesday", 2, "Open"),
                                  Pin("Tuesday", 4, "Open") >>),
                   Assign("B", << Pin("Tuesday", 5, "Open"), Pin("Tuesday", 6, "Open"),
                                  Pin("Wednesday", 1, "Open") >>),
                   Assign("G", << Pin("Wednesday", 2, "Open"), Pin("Wednesday", 4, "Open"),
                                  Pin("Wednesday", 5, "Open") >>),
                   Assign("H", << Pin("Wednesday", 6, "Open"), Pin("Monday", 8, "Open"),
                                  Pin("Friday", 8, "Open") >>) >>),
      (* two pinned days that fit no pattern: the third day depends on the set order *)
      Selection(<<"A", "C">>,
                << Assign("A", << Pin("Monday", 2, "Open"), Pin("Tuesday", 2, "Open") >>),
                   Assign("C", << >>) >>),
      (* the same two pinned days with no other class in the grid *)
      Selection(<<"A">>,
                << Assign("A", << Pin("Monday", 2, "Open"), Pin("Tuesday", 2, "Open") >>) >>),
      (* a pin that names only the day, on a day whose first period holds a *)
      (* class with another teacher and other students                       *)
      Selection(<<"L", "M">>,
                << Assign("L", << Pin("Monday", 1, "Open") >>),
                   Assign("M", << Pin("Monday", OpenPeriod, "Open") >>) >>),
      (* a pin that names only the period, when Monday holds such a class there *)
      Selection(<<"L", "M">>,
                << Assign("L", << Pin("Monday", 2, "Open") >>),
                   Assign("M", << Pin("Open", 2, "Open") >>) >>),
      (* a class whose pin names a room, when that room is taken on the day *)
      (* inferred for its other session by a class it does not clash with    *)
      Selection(<<"C", "K">>,
                << Assign("K", << Pin("Wednesday", 2, "Classroom 2") >>),
                   Assign("C", << Pin("Monday", 2, "Classroom 2") >>) >>),
      (* two sessions of one class with a room each and neither day nor period *)
      Selection(<<"A">>,
                << Assign("A", << Pin("Open", OpenPeriod, "Classroom 2"),
                                  Pin("Open", OpenPeriod, "Classroom 4") >>) >>),
      (* two sessions of one class pinned to one day *)
      Selection(<<"A">>,
                << Assign("A", << Pin("Monday", 2, "Open"), Pin("Monday", 4, "Open") >>) >>),
      (* two sessions of one class pinned to one slot *)
      Selection(<<"A">>,
                << Assign("A", << Pin("Monday", 2, "Open"), Pin("Monday", 2, "Open") >>) >>),
      (* a class of 6 credit units next to a pinned class *)
      Selection(<<"A", "E">>, << Assign("A", << Pin("Monday", 2, "Open") >>) >>),
      (* every session pinned, rooms given *)
      Selection(<<"A", "F">>,
                << Assign("A", << Pin("Monday", 2, "Classroom 4"),
                                  Pin("Wednesday", 2, "Classroom 4"),
                                  Pin("Friday", 7, "Classroom 4") >>),
                   Assign("F", << Pin("Monday", 2, "Classroom 4") >>) >>) }

GenerateSelections == AutoSelections \cup PairSelections \cup SpecialSelections

(* the bodies used when sessions are also dragged *)
Selections ==
    { Selection(<<"A", "C">>, << >>),
      Selection(<<"A", "B">>,
                << Assign("A", << Pin("Monday", 2, "Open") >>), Assign("B", << >>) >>),
      (* two one-session classes with nothing in common, on different days *)
      Selection(<<"L", "M">>,
                << Assign("L", << Pin("Monday", 2, "Open") >>),
                   Assign("M", << Pin("Tuesday", 2, "Open") >>) >>) }

UsePeriod7 == {FALSE, TRUE}

(* the drag-and-drop requests, on schedules generated without period 7 *)
Next ==
    \/ \E data \in Selections : SetSelection(data)
    \/ LoadSavedSchedule
    \/ Generate(FALSE)
    \/ GetValidSlots
    \/ MoveClass

InitDrag == Init /\ hash_order = DAYS

Spec == InitDrag /\ [][Next]_vars

(* the scheduling requests alone, over all the bodies *)
NextGenerate ==
    \/ \E data \in GenerateSelections : SetSelection(data)
    \/ LoadSavedSchedule
    \/ \E use_period_7 \in UsePeriod7 : Generate(use_period_7)

SpecGenerate == Init /\ [][NextGenerate]_vars

(* move requests served by threads that may run between each other; a     *)
(* selection or a scheduling request is sent only when no move is in      *)
(* flight, so that only move requests overlap                             *)
AllIdle == \A t \in Threads : in_flight[t] = << >>

NextConcurrent ==
    \/ AllIdle /\ \E data \in Selections : SetSelection(data)
    \/ AllIdle /\ Generate(FALSE)
    \/ \E t \in Threads : MoveValidate(t)
    \/ \E t \in Threads : MoveCommit(t)

SpecConcurrent == InitDrag /\ [][NextConcurrent]_vars

(***************************************************************************)
(* The room assigner alone: assign_room and                                *)
(* get_available_regular_classroom applied to one class record, one        *)
(* dictionary of manual room overrides and one room ledger of a slot.      *)
(***************************************************************************)
RoomCourses == {"BTCM", "GECO", "GELA"}

(* enrolments of 1, BigClassSize - 1, BigClassSize and BigClassSize + 1 students *)
RoomStudentLists ==
    { <<1>>, Tail(BigClass(100)), BigClass(100), <<1>> \o BigClass(100) }

RoomClasses ==
    { [Class |-> "X", Teacher |-> "T9", Course |-> course, Units |-> 4,
       Students |-> students] : <<course, students>> \in RoomCourses \X RoomStudentLists }

(* no override, an override for each kind of room, and a name that is no room *)
RoomOverrides ==
    { << >> } \cup { ("X" :> room) : room \in {"Computer Lab", "Chapel", "Classroom 4", "Gym"} }

RoomSlot == <<"Monday", 2>>

RoomLedgers ==
    { {<<RoomSlot[1], RoomSlot[2], room>> : room \in taken} :
        taken \in SUBSET Range(regular_classrooms) }

RoomRequests ==
    { [op |-> "room_request", success |-> TRUE, class_info |-> class_info,
       manual_rooms |-> manual_rooms, assigned_rooms |-> assigned_rooms] :
        <<class_info, manual_rooms, assigned_rooms>>
            \in RoomClasses \X RoomOverrides \X RoomLedgers }

InitRooms ==
    /\ selected_classes = << >>
    /\ manual_session_assignments = << >>
    /\ current_schedule = NoSchedule
    /\ last_schedule_file = NoFile
    /\ scheduler = NoScheduler
    /\ response \in RoomRequests
    /\ hash_order = DAYS
    /\ generations = 0
    /\ moves = 0
    /\ in_flight = [t \in Threads |-> << >>]

AssignRoomCall ==
    /\ response.op = "room_request"
    /\ response' = [op |-> "assign_room", success |-> TRUE, request |-> response,
                    room_type |-> AssignRoom(response.manual_rooms, response.class_info)]
    /\ UNCHANGED <<selected_classes, manual_session_assignments, current_schedule,
                   last_schedule_file, scheduler, hash_order, generations, moves,
                   in_flight>>

(* the pool category is resolved to a room when the class is checked or placed *)
PoolRoomCall ==
    /\ response.op = "assign_room"
    /\ response.room_type = "regular_classroom"
    /\ response' = [op |-> "get_available_regular_classroom", success |-> TRUE,
                    request |-> response.request, room_type |-> response.room_type,
                    room |-> get_available_regular_classroom(
                                 RoomSlot[1], RoomSlot[2],
                                 response.request.assigned_rooms)]
    /\ UNCHANGED <<selected_classes, manual_session_assignments, current_schedule,
                   last_schedule_file, scheduler, hash_order, generations, moves,
                   in_flight>>

NextRooms ==
    \/ AssignRoomCall
    \/ PoolRoomCall

SpecRooms == InitRooms /\ [][NextRooms]_vars


(***************************************************************************)
(* Properties of the grid left by ClassScheduler.generate_schedule.        *)
(* scheduler is the object of the latest /generate_schedule request; it is *)
(* NoScheduler (an empty grid) until a request has run the scheduler.      *)
(***************************************************************************)
ClassesAt(day, period) == scheduler.schedule[day][period]

RoomAt(day, period, class_name) ==
    Get(scheduler.room_assignments, <<day, period, class_name>>, "TBD")

GridCount(class_name) ==
    Cardinality(UNION {{<<d, p, i>> : i \in {j \in DOMAIN ClassesAt(d, p) :
                                                ClassesAt(d, p)[j] = class_name}} :
                          <<d, p>> \in DaySet \X Periods})

InGrid(class_name) == GridCount(class_name) > 0

HasManualConflict(class_name) ==
    \E k \in DOMAIN scheduler.manual_conflicts :
        scheduler.manual_conflicts[k].class = class_name

(* C1: in the grid left by generate_schedule no (day, period) slot holds two *)
(* sessions whose classes have the same teacher.                            *)
C1_NoTeacherClash ==
    \A d \in DaySet, p \in Periods :
        \A i, j \in DOMAIN ClassesAt(d, p) :
            i # j => ClassInfo(ClassesAt(d, p)[i]).Teacher
                         # ClassInfo(ClassesAt(d, p)[j]).Teacher

(* A and B have the same teacher; B asked for a slot that A holds, was refused *)
(* there, and both classes are in the grid.                                 *)
C1_Witness ==
    /\ InGrid("A") /\ InGrid("B")
    /\ HasManualConflict("B")
    /\ "A" \in Range(ClassesAt("Monday", 2))

(* C2: in the grid left by generate_schedule no (day, period) slot holds two *)
(* sessions whose classes share a student.                                  *)
C2_NoStudentClash ==
    \A d \in DaySet, p \in Periods :
        \A i, j \in DOMAIN ClassesAt(d, p) :
            i # j => StudentSet(ClassInfo(ClassesAt(d, p)[i]))
                         \cap StudentSet(ClassInfo(ClassesAt(d, p)[j])) = {}

(* D and F are 4-unit classes sharing one student, nothing is pinned, and   *)
(* both are in the grid.                                                    *)
C2_Witness ==
    /\ InGrid("D") /\ InGrid("F")
    /\ scheduler.session_assignments = << >>
    /\ ClassInfo("D").Units = 4 /\ ClassInfo("F").Units = 4
    /\ Cardinality(StudentSet(ClassInfo("D")) \cap StudentSet(ClassInfo("F"))) = 1

(* C3: in the grid and room assignments left by generate_schedule no two    *)
(* sessions in the same (day, period) are assigned the same concrete room.  *)
C3_NoRoomClash ==
    \A d \in DaySet, p \in Periods :
        \A i, j \in DOMAIN ClassesAt(d, p) :
            (i # j /\ RoomAt(d, p, ClassesAt(d, p)[i]) \in RoomNames)
                => RoomAt(d, p, ClassesAt(d, p)[i]) # RoomAt(d, p, ClassesAt(d, p)[j])

PinIsPlaced(class_name, session) ==
    \E d \in DaySet, p \in Periods :
        /\ session.day \in {"Open", d}
        /\ session.period \in {OpenPeriod, p}
        /\ class_name \in Range(ClassesAt(d, p))

PinIsRecorded(class_name, session) ==
    \E k \in DOMAIN scheduler.manual_conflicts :
        /\ scheduler.manual_conflicts[k].class = class_name
        /\ session.day \in {"Open", scheduler.manual_conflicts[k].day}
        /\ session.period \in {OpenPeriod, scheduler.manual_conflicts[k].period}

(* C4: every manual session assignment of a scheduled class that specifies a *)
(* day and/or a period is in the grid at the requested day/period, or has a *)
(* manual-conflict record for that class and requested slot.                *)
C4_PinsPlacedOrRecorded ==
    \A a \in DOMAIN scheduler.session_assignments :
        LET class_name == scheduler.session_assignments[a].cls
            sessions == scheduler.session_assignments[a].sessions
        IN (\E c \in DOMAIN scheduler.classes : scheduler.classes[c].Class = class_name)
           => \A k \in DOMAIN sessions :
                  (sessions[k].day # "Open" \/ sessions[k].period # OpenPeriod)
                      => \/ PinIsPlaced(class_name, sessions[k])
                         \/ PinIsRecorded(class_name, sessions[k])

UnplacedInstances(class_info) ==
    IF class_info.Class \in Range(scheduler.unscheduled_classes)
    THEN RemainingSessionsNeeded(scheduler, class_info)
    ELSE 0

C6_InvalidUnitsRejected ==
    \A c \in DOMAIN scheduler.classes :
        scheduler.classes[c].Units \notin {4, 8, 12}
            => /\ ~InGrid(scheduler.classes[c].Class)
               /\ response.op = "generate_schedule"
                      => /\ ~response.success
                         /\ response.error = "Invalid credit hours"
                         /\ scheduler.classes[c].Class \in response.scheduling_errors


(***************************************************************************)
(* Properties of /api/move_class and /api/get_valid_slots.  A step is a    *)
(* move_class request on a displayed grid when it counts one more move.    *)
(***************************************************************************)
IsMoveStep == moves' = moves + 1 /\ current_schedule # NoSchedule

SameSlot(request) ==
    request.new_day = request.current_day /\ request.new_period = request.current_period

(* the entries of the target slot, the moving session itself left out *)
OtherOccupants(grid, request) ==
    LET slot == grid[request.new_day][request.new_period]
        own == IF SameSlot(request)
               THEN {i \in DOMAIN slot : slot[i].Class = request.class_name} ELSE {}
    IN {slot[i] : i \in {j \in DOMAIN slot : j \notin own \/ \E k \in own : k < j}}

TargetConflict(grid, request) ==
    \E e \in OtherOccupants(grid, request) :
        \/ e.Class = request.class_name
        \/ ClassInfo(e.Class).Teacher = ClassInfo(request.class_name).Teacher
        \/ StudentSet(ClassInfo(e.Class)) \cap StudentSet(ClassInfo(request.class_name))
               # {}

(* C7: move_class rejects a move whenever the target (day, period), the     *)
(* moving session itself left out, holds a session of the same class, of a *)
(* class with the same teacher, or of a class sharing a student.            *)
C7_ConflictingMoveRejected ==
    [][(IsMoveStep /\ TargetConflict(current_schedule, response'.request))
           => ~response'.success]_vars

(* session 0 of A was dragged from Monday 2 onto Wednesday 2, which holds   *)
(* session 1 of A, and the move was refused.                                *)
C7_Witness ==
    /\ current_schedule # NoSchedule
    /\ response.op = "move_class" /\ ~response.success
    /\ response.request.class_name = "A" /\ response.request.session_index = 0
    /\ response.request.current_day = "Monday" /\ response.request.current_period = 2
    /\ response.request.new_day = "Wednesday" /\ response.request.new_period = 2
    /\ \E i \in DOMAIN current_schedule["Wednesday"][2] :
           /\ current_schedule["Wednesday"][2][i].Class = "A"
           /\ current_schedule["Wednesday"][2][i].sessionIndex = 1
    /\ \E i \in DOMAIN current_schedule["Monday"][2] :
           /\ current_schedule["Monday"][2][i].Class = "A"
           /\ current_schedule["Monday"][2][i].sessionIndex = 0

(* C8: when move_class rejects a move, the live grid and the stored session  *)
(* assignments (in memory and in last_schedule.json) are exactly as before. *)
C8_RejectionChangesNothing ==
    [][(IsMoveStep /\ ~response'.success)
           => UNCHANGED <<current_schedule, manual_session_assignments,
                          last_schedule_file>>]_vars

EntriesOf(grid, day, period, class_name) ==
    {i \in DOMAIN grid[day][period] : grid[day][period][i].Class = class_name}

EntryCount(grid, class_name) ==
    Cardinality({e \in DOMAIN GridEntries(grid) :
                    GridEntries(grid)[e].entry.Class = class_name})

(* after an accepted move a refused one left in last_schedule.json a session *)
(* of a class at a slot where the grid holds no session of that class.      *)
C8_Witness ==
    /\ current_schedule # NoSchedule
    /\ response.op = "move_class" /\ ~response.success
    /\ \E a \in DOMAIN last_schedule_file.session_assignments :
           \E k \in DOMAIN last_schedule_file.session_assignments[a].sessions :
               LET s == last_schedule_file.session_assignments[a].sessions[k]
               IN /\ s.day \in DaySet /\ s.period \in Periods
                  /\ EntriesOf(current_schedule, s.day, s.period,
                               last_schedule_file.session_assignments[a].cls) = {}

C10_ValidSlotsReadOnly ==
    [][(response'.op = "get_valid_slots" /\ response'.success)
           => /\ UNCHANGED <<selected_classes, manual_session_assignments,
                             current_schedule, last_schedule_file>>
              /\ ValidSlots(current_schedule', selected_classes', response'.request)
                     = response'.valid_slots]_vars

(* a validity map was returned that allows some slots and refuses others *)
C10_Witness ==
    /\ response.op = "get_valid_slots" /\ response.success
    /\ \E k \in DOMAIN response.valid_slots : response.valid_slots[k].valid
    /\ \E k \in DOMAIN response.valid_slots : ~response.valid_slots[k].valid


(* the entries of a validity map for one (day, period) *)
SlotEntries(valid_slots, day, period) ==
    {k \in DOMAIN valid_slots : /\ valid_slots[k].day = day
                                /\ valid_slots[k].period = period}

RequestedAt(class_name, day, period) ==
    \/ \E a \in DOMAIN scheduler.session_assignments :
           /\ scheduler.session_assignments[a].cls = class_name
           /\ \E k \in DOMAIN scheduler.session_assignments[a].sessions :
                  \/ scheduler.session_assignments[a].sessions[k].day = day
                  \/ scheduler.session_assignments[a].sessions[k].period = period

ExtendedPeriods == {7, LastPeriod}

(* C12: after generate_schedule with use_period_7 false, no session that    *)
(* the scheduler placed on its own (its class asked for neither the day nor *)
(* the period) lies in period 7 or 7b.                                      *)
C12_NoExtendedPeriodUnlessEnabled ==
    ~scheduler.use_period_7
        => \A d \in DaySet, p \in ExtendedPeriods :
               \A i \in DOMAIN ClassesAt(d, p) : RequestedAt(ClassesAt(d, p)[i], d, p)


(***************************************************************************)
(* Properties of the outcome of generate_schedule: scheduler.success and   *)
(* scheduler.unscheduled are the pair it returned, response is the body of *)
(* the /generate_schedule response.                                        *)
(***************************************************************************)
(* the response on hand is the one of the request that ran the scheduler *)
Generated == response.op = "generate_schedule" /\ scheduler.classes # << >>

(* no configuration placed all classes: the run kept has unplaced classes *)
NoCompleteRun == scheduler.unscheduled_classes # << >>

WithinTenth ==
    Len(scheduler.unscheduled_classes) * PartialThresholdDen <= Len(scheduler.classes)

GridIsEmpty == \A d \in DaySet, p \in Periods : ClassesAt(d, p) = << >>

ListedInDiagnostics ==
    Range(response.unscheduled) \cup response.scheduling_errors
        \cup {response.manual_assignment_blocked[k].class :
                  k \in DOMAIN response.manual_assignment_blocked}
        \cup {response.manual_assignment_warnings[k].class :
                  k \in DOMAIN response.manual_assignment_warnings}

PartialSuccess == Generated /\ response.success /\ response.partial_schedule

(* C14: when the response reports a partial success, every class that has   *)
(* fewer sessions in the grid than its frequency is named by one of the     *)
(* response's diagnostic lists (unscheduled, scheduling_errors,             *)
(* manual_assignment_blocked, manual_assignment_warnings).                  *)
C14_IncompleteClassesListed ==
    PartialSuccess
        => \A c \in DOMAIN scheduler.classes :
               GridCount(scheduler.classes[c].Class)
                       < get_class_frequency(scheduler.classes[c].Units)
                   => scheduler.classes[c].Class \in ListedInDiagnostics


(* the pin k of assignment a names a definite slot that holds the placed    *)
(* pin of another class with the same teacher, processed before it          *)
PinMeetsSameTeacher(a, k) ==
    LET sa == scheduler.session_assignments
        pin == sa[a].sessions[k]
    IN /\ pin.day \in DaySet /\ pin.period \in Periods
       /\ \E c \in DOMAIN scheduler.classes : scheduler.classes[c].Class = sa[a].cls
       /\ \E b \in 1..(a - 1) : \E j \in DOMAIN sa[b].sessions :
              /\ sa[b].sessions[j].day = pin.day
              /\ sa[b].sessions[j].period = pin.period
              /\ sa[b].cls \in Range(ClassesAt(pin.day, pin.period))
              /\ ClassInfo(sa[b].cls).Teacher = ClassInfo(sa[a].cls).Teacher

TeacherRecord(records, class_name, pin) ==
    \E r \in DOMAIN records :
        /\ records[r].class = class_name
        /\ records[r].day = pin.day /\ records[r].period = pin.period
        /\ \E i \in DOMAIN records[r].conflicts : records[r].conflicts[i].type = "teacher"

FullyPlaced(class_name) ==
    GridCount(class_name) = get_class_frequency(ClassInfo(class_name).Units)

(* C15: a pin whose slot already holds a session of another class with the  *)
(* same teacher is not placed there and has a manual-conflict record naming *)
(* a teacher conflict; if the class nevertheless has all its sessions in    *)
(* the grid, the response reports success with partial_schedule set and     *)
(* carries the record as a manual assignment warning.                       *)
C15_RejectedPin ==
    Generated =>
        \A a \in DOMAIN scheduler.session_assignments :
            \A k \in DOMAIN scheduler.session_assignments[a].sessions :
                LET class_name == scheduler.session_assignments[a].cls
                    pin == scheduler.session_assignments[a].sessions[k]
                IN PinMeetsSameTeacher(a, k)
                   => /\ class_name \notin Range(ClassesAt(pin.day, pin.period))
                      /\ TeacherRecord(scheduler.manual_conflicts, class_name, pin)
                      /\ FullyPlaced(class_name)
                            => /\ response.success /\ response.partial_schedule
                               /\ TeacherRecord(response.manual_assignment_warnings,
                                                class_name, pin)

(* a pin was refused for a teacher conflict and its class has all its       *)
(* sessions in the grid, none of them in the pinned slot.                   *)
C15_Witness ==
    /\ Generated
    /\ \E a \in DOMAIN scheduler.session_assignments :
           \E k \in DOMAIN scheduler.session_assignments[a].sessions :
               /\ PinMeetsSameTeacher(a, k)
               /\ FullyPlaced(scheduler.session_assignments[a].cls)
               /\ get_class_frequency(ClassInfo(scheduler.session_assignments[a].cls).Units) = 3
    /\ response.success /\ response.partial_schedule
    /\ response.scheduling_errors = {}


(***************************************************************************)
(* Round trip: the live grid written as session assignments and scheduled  *)
(* again with them.                                                        *)
(***************************************************************************)
SessionsIn(grid, class_name) ==
    {<<e.entry.sessionIndex, e.day, e.period, e.entry.room>> :
        e \in {f \in Range(GridEntries(grid)) : f.entry.Class = class_name}}

(* every selected class has all its sessions in the live grid *)
GridIsComplete ==
    /\ current_schedule # NoSchedule
    /\ \A i \in DOMAIN selected_classes :
           EntryCount(current_schedule, selected_classes[i])
               = get_class_frequency(ClassInfo(selected_classes[i]).Units)

(* the grid of generate_schedule run with the live grid as its constraints *)
RoundTripGrid(use_period_7) ==
    With(generate_schedule(
             SelectSeq(classes_data, LAMBDA c : c.Class \in Range(selected_classes)),
             convert_schedule_to_sessions(current_schedule, selected_classes),
             use_period_7, hash_order),
         LAMBDA result : EnhancedSchedule(result.schedule, result.room_assignments))

Reproduced(grid) ==
    \A i \in DOMAIN selected_classes :
        SessionsIn(grid, selected_classes[i])
            = SessionsIn(current_schedule, selected_classes[i])

(* C16: when the live grid holds every session of every selected class,    *)
(* whether it was just generated or changed by accepted moves, writing it  *)
(* as session assignments and running generate_schedule with them gives a  *)
(* grid with the same (day, period, room) for every class and session      *)
(* index.                                                                  *)
C16_RoundTrip ==
    GridIsComplete => \A use_period_7 \in UsePeriod7 : Reproduced(RoundTripGrid(use_period_7))


SlotsOf(class_name) ==
    {<<d, p>> \in DaySet \X Periods : class_name \in Range(ClassesAt(d, p))}

(* C17: a run whose only class has 12 units, with no session assignments,   *)
(* places exactly three sessions of it, on Monday, Wednesday and Friday in  *)
(* one core period, reports no conflict and no unplaced class, and the      *)
(* response is a success that is not partial.                               *)
C17_SingleClass ==
    (/\ Generated
     /\ Len(scheduler.classes) = 1
     /\ scheduler.classes[1].Units = 12
     /\ scheduler.session_assignments = << >>)
        => /\ \E p \in CorePeriods :
                  SlotsOf(scheduler.classes[1].Class)
                      = {<<"Monday", p>>, <<"Wednesday", p>>, <<"Friday", p>>}
           /\ GridCount(scheduler.classes[1].Class) = 3
           /\ scheduler.manual_conflicts = << >>
           /\ scheduler.unscheduled_classes = << >>
           /\ scheduler.success
           /\ response.success /\ ~response.partial_schedule
           /\ response.unscheduled = << >> /\ response.scheduling_errors = {}

(* class K alone was scheduled, with extended hours enabled, and sits in    *)
(* period 2 on Monday, Wednesday and Friday.                                *)
C17_Witness ==
    /\ Generated
    /\ Len(scheduler.classes) = 1 /\ scheduler.classes[1].Class = "K"
    /\ scheduler.classes[1].Units = 12
    /\ scheduler.session_assignments = << >>
    /\ scheduler.use_period_7
    /\ SlotsOf("K") = {<<"Monday", 2>>, <<"Wednesday", 2>>, <<"Friday", 2>>}
    /\ response.success


(***************************************************************************)
(* Properties of the live grid under move requests.                        *)
(***************************************************************************)
Live(day, period) ==
    IF current_schedule = NoSchedule THEN << >> ELSE current_schedule[day][period]

ShareTeacherOrStudent(a, b) ==
    \/ ClassInfo(a).Teacher = ClassInfo(b).Teacher
    \/ StudentSet(ClassInfo(a)) \cap StudentSet(ClassInfo(b)) # {}

LiveGridClashFree ==
    \A d \in DaySet, p \in Periods :
        \A i, j \in DOMAIN Live(d, p) :
            i # j => ~ShareTeacherOrStudent(Live(d, p)[i].Class, Live(d, p)[j].Class)

(* C18: with move_class requests served by concurrent threads, the live    *)
(* grid never holds two sessions with the same teacher or a shared student *)
(* in one slot, as it would not after the same requests run one by one.    *)
C18_ConcurrentMovesClashFree == LiveGridClashFree


(* C19: after any sequence of move_class requests, accepted or refused, on *)
(* a generated grid, no slot of the live grid holds two sessions with the  *)
(* same teacher or a shared student, nor two sessions of one class.        *)
C19_MovesKeepGridClashFree ==
    \A d \in DaySet, p \in Periods :
        \A i, j \in DOMAIN Live(d, p) :
            i # j => /\ Live(d, p)[i].Class # Live(d, p)[j].Class
                     /\ ~ShareTeacherOrStudent(Live(d, p)[i].Class, Live(d, p)[j].Class)

(* two moves were requested on a generated grid of classes A and C, which  *)
(* share a student: the first was accepted, so the grid is no longer the   *)
(* generated one, and the second was refused.                              *)
C19_Witness ==
    /\ current_schedule # NoSchedule
    /\ selected_classes = <<"A", "C">>
    /\ moves = 2
    /\ response.op = "move_class" /\ ~response.success
    /\ current_schedule # EnhancedSchedule(scheduler.schedule, scheduler.room_assignments)

(* C20: after any sequence of accepted move_class requests on a generated  *)
(* grid without a room clash, no two sessions of one slot of the live grid *)
(* are in the same concrete room.                                          *)
C20_MovesKeepRoomsApart ==
    \A d \in DaySet, p \in Periods :
        \A i, j \in DOMAIN Live(d, p) :
            (i # j /\ Live(d, p)[i].room \in RoomNames)
                => Live(d, p)[i].room # Live(d, p)[j].room


(***************************************************************************)
(* Moves validated on the grid as it is when the request is served.        *)
(***************************************************************************)
(* the grid as generate_schedule displayed it, before any move *)
GeneratedGrid == EnhancedSchedule(scheduler.schedule, scheduler.room_assignments)

(* get_valid_slots on the generated grid reported the target of the request valid *)
ReportedValid(request) ==
    \E e \in Range(ValidSlots(GeneratedGrid, selected_classes,
                              [class_name |-> request.class_name,
                               session_index |-> request.session_index,
                               current_day |-> request.current_day,
                               current_period |-> request.current_period])) :
        e.day = request.new_day /\ e.period = request.new_period /\ e.valid

(* the target was reported valid on the generated grid for the session at  *)
(* its place there, and a move accepted since has put a conflicting        *)
(* session in the target slot                                              *)
StaleTarget(request) ==
    /\ scheduler.classes # << >>
    /\ EntriesOf(GeneratedGrid, request.current_day, request.current_period,
                 request.class_name) # {}
    /\ ~TargetConflict(GeneratedGrid, request)
    /\ ReportedValid(request)
    /\ TargetConflict(current_schedule, request)

(* C21: a move_class request to a slot that get_valid_slots reported valid *)
(* on the generated grid, and in which an accepted move has since put a    *)
(* conflicting session, is refused and leaves the live grid unchanged.     *)
C21_ValidatedOnCurrentGrid ==
    [][(IsMoveStep /\ StaleTarget(response'.request))
           => (~response'.success /\ current_schedule' = current_schedule)]_vars

(* C's Thursday session was moved to Monday 4; the move of a session of A, *)
(* which shares a student with C, to Monday 4 was then refused.            *)
C21_Witness ==
    /\ current_schedule # NoSchedule
    /\ moves = 2
    /\ response.op = "move_class" /\ ~response.success
    /\ response.request.class_name = "A"
    /\ response.request.new_day = "Monday" /\ response.request.new_period = 4
    /\ StaleTarget(response.request)
    /\ EntriesOf(current_schedule, "Monday", 4, "C") # {}
    /\ EntriesOf(current_schedule, "Monday", 4, "A") = {}


(***************************************************************************)
(* Properties of the choice among the configurations tried.               *)
(***************************************************************************)
(* the runs of the configurations tried by the request that ran the scheduler *)
RunsTried ==
    With(Approaches(scheduler.use_period_7), LAMBDA approaches :
    List([i \in DOMAIN approaches |->
             generate_schedule_internal(scheduler.classes, scheduler.session_assignments,
                                        approaches[i].use_p7,
                                        approaches[i].aggressive_core, hash_order)]))

CompleteRuns(runs) == {i \in DOMAIN runs : runs[i].unscheduled_classes = << >>}

(* C22: if some configuration tried places all classes, the grid and the   *)
(* room assignments returned are those of a complete configuration whose   *)
(* score is maximal among the complete ones, the earliest of them, and     *)
(* generate_schedule returns success with an empty list; the response is a *)
(* success unless the route refuses a class for its credit hours.          *)
C22_BestCompleteRun ==
    Generated =>
        With(RunsTried, LAMBDA runs :
            CompleteRuns(runs) # {}
                => /\ \E i \in CompleteRuns(runs) :
                          /\ \A j \in CompleteRuns(runs) :
                                 /\ evaluate_solution_quality(runs[j].schedule)
                                        <= evaluate_solution_quality(runs[i].schedule)
                                 /\ j < i => evaluate_solution_quality(runs[j].schedule)
                                                < evaluate_solution_quality(runs[i].schedule)
                          /\ scheduler.schedule = runs[i].schedule
                          /\ scheduler.room_assignments = runs[i].room_assignments
                   /\ scheduler.success /\ scheduler.unscheduled = << >>
                   /\ response.error # "Invalid credit hours" => response.success)

(* two complete configurations gave different grids: K is in period 1 on   *)
(* Monday, Tuesday and Thursday in the grid returned, and in period 7 in   *)
(* the grid of the last configuration, whose score is lower.               *)
C22_Witness ==
    /\ Generated /\ scheduler.success
    /\ SlotsOf("K") = {<<"Monday", 1>>, <<"Tuesday", 1>>, <<"Thursday", 1>>}
    /\ With(RunsTried, LAMBDA runs :
           /\ CompleteRuns(runs) = DOMAIN runs
           /\ runs[Len(runs)].schedule # scheduler.schedule
           /\ evaluate_solution_quality(runs[Len(runs)].schedule)
                  < evaluate_solution_quality(scheduler.schedule))


(***************************************************************************)
(* The placement search, class by class.  SearchTrace replays one          *)
(* configuration of the last request: element k is the run just before the *)
(* k-th class of the sorted list is tried, element k + 1 the run after it. *)
(***************************************************************************)
SortedClasses == SortByPriority(scheduler.classes)

SearchTrace(approach) ==
    With(SortedClasses, LAMBDA sorted_classes :
    Fold(LAMBDA trace, i :
             Append(trace,
                    AutoScheduleClass(trace[i], scheduler.session_assignments,
                                      sorted_classes[i], approach.use_p7,
                                      approach.aggressive_core, hash_order)),
         << ProcessManualAssignments(scheduler.classes, scheduler.session_assignments) >>,
         Len(sorted_classes)))

(* the slots that received a session in one step of the search *)
PlacedBy(before, after) ==
    {sl \in DaySet \X Periods :
        Len(after.schedule[sl[1]][sl[2]]) > Len(before.schedule[sl[1]][sl[2]])}

PatternOf(before, class_info) ==
    analyze_manual_session_pattern(before, scheduler.session_assignments, class_info.Class,
                                   get_class_frequency(class_info.Units), hash_order)

DayOptionsOf(before, class_info, manual_pattern) ==
    FilterManualDays(before, scheduler.session_assignments, class_info.Class,
                     DayOptions(manual_pattern.inferred_days,
                                RemainingSessionsNeeded(before, class_info)),
                     RemainingSessionsNeeded(before, class_info))

(* the candidates of a list of periods: period by period, day pattern by day pattern *)
Candidates(periods, day_options) ==
    List([k \in 1..(Len(periods) * Len(day_options)) |->
             [period |-> periods[((k - 1) \div Len(day_options)) + 1],
              day_option |-> day_options[((k - 1) % Len(day_options)) + 1]]])

FeasibleAmong(before, class_info, candidates, preferred_room) ==
    {k \in DOMAIN candidates :
        can_schedule_class(before.schedule, class_info, candidates[k].day_option,
                           candidates[k].period, before.assigned_rooms,
                           preferred_room) = << >>}

SlotsOfCandidate(candidate) ==
    {<<candidate.day_option[i], candidate.period>> : i \in DOMAIN candidate.day_option}

First(set) == CHOOSE i \in set : \A j \in set : i <= j

(* C23 for one class of one configuration: before and after are the runs around it *)
CoreFirst(before, after, class_info) ==
    With(PatternOf(before, class_info), LAMBDA manual_pattern :
    (manual_pattern.preferred_period = OpenPeriod
     /\ RemainingSessionsNeeded(before, class_info) > 0)
    => With(Candidates(<<2, 4, 5, 6>>,
                       DayOptionsOf(before, class_info, manual_pattern)),
            LAMBDA core :
       With(FeasibleAmong(before, class_info, core, manual_pattern.preferred_room),
            LAMBDA feasible :
       /\ feasible # {}
              => PlacedBy(before, after) = SlotsOfCandidate(core[First(feasible)])
       /\ (\E sl \in PlacedBy(before, after) : sl[2] \notin {2, 4, 5, 6})
              => feasible = {})))

(* C23: in every configuration tried, a class without a period hint is    *)
(* placed at its first feasible candidate in the order core period 2, 4,   *)
(* 5, 6 and, within a period, day pattern by day pattern; it gets a        *)
(* session outside the core periods only if none of these was feasible     *)
(* when the class was tried.                                               *)
C23_FirstFeasibleCore ==
    Generated =>
        \A a \in DOMAIN Approaches(scheduler.use_period_7) :
            With(SearchTrace(Approaches(scheduler.use_period_7)[a]), LAMBDA trace :
                \A k \in DOMAIN SortedClasses :
                    CoreFirst(trace[k], trace[k + 1], SortedClasses[k]))

(* a class without a hint whose first core candidate was not feasible and  *)
(* that was placed at a later one                                          *)
C23_Witness ==
    /\ Generated
    /\ With(SearchTrace(Approaches(scheduler.use_period_7)[1]), LAMBDA trace :
           \E k \in DOMAIN SortedClasses :
               With(PatternOf(trace[k], SortedClasses[k]), LAMBDA manual_pattern :
               /\ manual_pattern.preferred_period = OpenPeriod
               /\ RemainingSessionsNeeded(trace[k], SortedClasses[k]) > 0
               /\ With(Candidates(<<2, 4, 5, 6>>,
                                  DayOptionsOf(trace[k], SortedClasses[k], manual_pattern)),
                       LAMBDA core :
                  With(FeasibleAmong(trace[k], SortedClasses[k], core,
                                     manual_pattern.preferred_room),
                       LAMBDA feasible :
                  /\ feasible # {}
                  /\ 1 \notin feasible
                  /\ PlacedBy(trace[k], trace[k + 1])
                         = SlotsOfCandidate(core[First(feasible)])))))


(* every candidate of a class in one configuration, in the order it is tried *)
AllCandidates(before, class_info, manual_pattern, approach) ==
    Candidates(Flatten(PeriodGroups(class_info.Class, manual_pattern.preferred_period,
                                    approach.use_p7, approach.aggressive_core)),
               DayOptionsOf(before, class_info, manual_pattern))

(* the candidate of highest get_option_priority_score, the first found among equals *)
BestScored(candidates, set, frequency) ==
    CHOOSE i \in set :
        \A j \in set :
            /\ get_option_priority_score(candidates[j].period, candidates[j].day_option,
                                         frequency)
                   <= get_option_priority_score(candidates[i].period,
                                                candidates[i].day_option, frequency)
            /\ j < i => get_option_priority_score(candidates[j].period,
                                                  candidates[j].day_option, frequency)
                            < get_option_priority_score(candidates[i].period,
                                                        candidates[i].day_option, frequency)

RecordedUnplaced(before, after, class_info) ==
    after.unscheduled_classes = Append(before.unscheduled_classes, class_info.Class)

(* one class of one configuration; hint_first says whether a feasible     *)
(* candidate in the hinted period is taken before the scores are compared *)
FallbackStep(before, after, class_info, approach, hint_first) ==
    With(PatternOf(before, class_info), LAMBDA manual_pattern :
    With(AllCandidates(before, class_info, manual_pattern, approach), LAMBDA candidates :
    With(FeasibleAmong(before, class_info, candidates, manual_pattern.preferred_room),
         LAMBDA feasible :
    With({k \in feasible : candidates[k].period = manual_pattern.preferred_period},
         LAMBDA hinted :
    (/\ RemainingSessionsNeeded(before, class_info) > 0
     /\ \A k \in feasible : candidates[k].period \notin {2, 4, 5, 6})
    => /\ (feasible # {} /\ hint_first /\ hinted # {})
              => PlacedBy(before, after) = SlotsOfCandidate(candidates[First(hinted)])
       /\ (feasible # {} /\ ~(hint_first /\ hinted # {}))
              => PlacedBy(before, after)
                     = SlotsOfCandidate(
                           candidates[BestScored(candidates, feasible,
                                                 get_class_frequency(class_info.Units))])
       /\ RecordedUnplaced(before, after, class_info) <=> feasible = {}))))

FallbackSteps(hint_first) ==
    Generated =>
        \A a \in DOMAIN Approaches(scheduler.use_period_7) :
            With(SearchTrace(Approaches(scheduler.use_period_7)[a]), LAMBDA trace :
                \A k \in DOMAIN SortedClasses :
                    FallbackStep(trace[k], trace[k + 1], SortedClasses[k],
                                 Approaches(scheduler.use_period_7)[a], hint_first))

(* C24 as stated: when no core candidate is feasible for a class, the     *)
(* feasible candidate of highest get_option_priority_score is committed,   *)
(* the first found among equals, and the class is recorded as unplaced     *)
(* only if no candidate was feasible.                                      *)
C24_BestFallback == FallbackSteps(FALSE)

(* C24 with the period hint: when no core candidate is feasible, the first *)
(* feasible candidate in the hinted period is committed if there is one;   *)
(* otherwise the feasible candidate of highest get_option_priority_score,  *)
(* the first found among equals; the class is recorded as unplaced exactly *)
(* when no candidate was feasible.                                         *)
C24_BestFallbackAfterHint == FallbackSteps(TRUE)

(* a class with no feasible core candidate whose first feasible candidate  *)
(* is not the one of highest score, placed at the one of highest score     *)
C24_Witness ==
    /\ Generated
    /\ \E a \in DOMAIN Approaches(scheduler.use_period_7) :
         With(Approaches(scheduler.use_period_7)[a], LAMBDA approach :
         With(SearchTrace(approach), LAMBDA trace :
           \E k \in DOMAIN SortedClasses :
             With(PatternOf(trace[k], SortedClasses[k]), LAMBDA manual_pattern :
             With(AllCandidates(trace[k], SortedClasses[k], manual_pattern, approach),
                  LAMBDA candidates :
             With(FeasibleAmong(trace[k], SortedClasses[k], candidates,
                                manual_pattern.preferred_room),
                  LAMBDA feasible :
             /\ RemainingSessionsNeeded(trace[k], SortedClasses[k]) > 0
             /\ manual_pattern.preferred_period = OpenPeriod
             /\ feasible # {}
             /\ \A i \in feasible : candidates[i].period \notin {2, 4, 5, 6}
             /\ BestScored(candidates, feasible,
                           get_class_frequency(SortedClasses[k].Units)) # First(feasible)
             /\ PlacedBy(trace[k], trace[k + 1])
                    = SlotsOfCandidate(
                          candidates[BestScored(candidates, feasible,
                                         get_class_frequency(SortedClasses[k].Units))]))))))


(* the class had a pinned session placed by the manual phase *)
HasPlacedPin(class_info) ==
    Get(scheduler.manually_scheduled_sessions, class_info.Class, {}) # {}

RoomConstrained(class_info) == assign_room(class_info) \in {"computer_lab", "chapel"}

(* the class still needed sessions after the manual phase, so the search tried it *)
Tried(class_info) == RemainingSessionsNeeded(scheduler, class_info) > 0

(* C25: among the classes the search tries, every class with a pinned     *)
(* session and every class of the Computer-Lab or Chapel category comes    *)
(* before every class with neither, in the order the search processes them. *)
C25_ConstrainedClassesFirst ==
    Generated =>
        \A i, j \in DOMAIN SortedClasses :
            (/\ Tried(SortedClasses[i]) /\ Tried(SortedClasses[j])
             /\ HasPlacedPin(SortedClasses[j]) \/ RoomConstrained(SortedClasses[j])
             /\ ~HasPlacedPin(SortedClasses[i]) /\ ~RoomConstrained(SortedClasses[i]))
            => j < i

(* the same for the room categories alone *)
C25_RoomConstrainedFirst ==
    Generated =>
        \A i, j \in DOMAIN SortedClasses :
            (/\ Tried(SortedClasses[i]) /\ Tried(SortedClasses[j])
             /\ RoomConstrained(SortedClasses[j])
             /\ ~HasPlacedPin(SortedClasses[i]) /\ ~RoomConstrained(SortedClasses[i]))
            => j < i


(* the grid as the manual phase leaves it: the pinned sessions that were placed *)
ManualGrid ==
    ProcessManualAssignments(scheduler.classes, scheduler.session_assignments).schedule

Occurrences(grid, day, period, class_name) ==
    Cardinality({i \in DOMAIN grid[day][period] : grid[day][period][i] = class_name})

PinnedDays(manual_grid, class_name) ==
    {d \in DaySet : \E p \in Periods : Occurrences(manual_grid, d, p, class_name) > 0}

(* the slots where the search added a session of the class *)
AutoPlacedSlots(manual_grid, class_name) ==
    {sl \in DaySet \X Periods :
        Occurrences(scheduler.schedule, sl[1], sl[2], class_name)
            > Occurrences(manual_grid, sl[1], sl[2], class_name)}

(* C26: no session that the search places for a class lies on a day on    *)
(* which one of the class's pinned sessions was placed, whether the pin    *)
(* named the day and the period, the day only or the period only.          *)
C26_AutoSessionsAvoidPinnedDays ==
    Generated =>
        With(ManualGrid, LAMBDA manual_grid :
            \A c \in Range(selected_classes) :
                \A sl \in AutoPlacedSlots(manual_grid, c) :
                    sl[1] \notin PinnedDays(manual_grid, c))


(* the run as the manual phase leaves it *)
ManualRun == ProcessManualAssignments(scheduler.classes, scheduler.session_assignments)

PinnedCount(manual_run, class_name) ==
    Cardinality(Get(manual_run.manually_scheduled_sessions, class_name, {}))

CompletesPattern(days) == days \subseteq mwf_days \/ days \subseteq twth_days

(* C27 for one class: inferred is the day pattern the analysis returned *)
InferredPatternFits(manual_run, class_info, inferred) ==
    LET frequency == get_class_frequency(class_info.Units)
        pinned_days == PinnedDays(manual_run.schedule, class_info.Class)
    IN (/\ frequency \in {2, 3}
        /\ PinnedCount(manual_run, class_info.Class) < frequency
        /\ inferred # << >>)
       => /\ Range(inferred) \cap pinned_days = {}
          /\ Len(inferred) = frequency - PinnedCount(manual_run, class_info.Class)
          /\ Cardinality(Range(inferred)) = Len(inferred)
          /\ CompletesPattern(pinned_days)
                 => CompletesPattern(pinned_days \cup Range(inferred))

(* C27: for a class of frequency 2 or 3 with fewer placed pins than its   *)
(* frequency, the inferred day pattern, when one is returned, contains no  *)
(* pinned day, has exactly frequency minus pinned-session-count days, and  *)
(* with the pinned days lies within Monday/Wednesday/Friday or             *)
(* Tuesday/Wednesday/Thursday when the pinned days do.                     *)
C27_InferredDaysCompletePattern ==
    Generated =>
        With(ManualRun, LAMBDA manual_run :
            \A k \in DOMAIN scheduler.classes :
                InferredPatternFits(
                    manual_run, scheduler.classes[k],
                    analyze_manual_session_pattern(
                        manual_run, scheduler.session_assignments,
                        scheduler.classes[k].Class,
                        get_class_frequency(scheduler.classes[k].Units),
                        hash_order).inferred_days))


(***************************************************************************)
(* The manual phase, pin by pin.  PinSteps lists the sessions of the       *)
(* selected classes in the order they are processed; element j of PinTrace *)
(* is the run just before step j, element j + 1 the run after it.          *)
(***************************************************************************)
PinSteps ==
    Flatten(List([i \in DOMAIN scheduler.session_assignments |->
        IF scheduler.session_assignments[i].cls
               \in {scheduler.classes[k].Class : k \in DOMAIN scheduler.classes}
        THEN List([j \in DOMAIN scheduler.session_assignments[i].sessions |->
                      [cls |-> scheduler.session_assignments[i].cls,
                       session_index |-> j - 1,
                       session |-> scheduler.session_assignments[i].sessions[j]]])
        ELSE << >>]))

PinTrace ==
    With(PinSteps, LAMBDA steps :
    Fold(LAMBDA trace, j :
             Append(trace,
                    ProcessManualSession(
                        IF steps[j].session_index = 0
                        THEN [trace[j] EXCEPT !.manually_scheduled_sessions =
                                                  Put(@, steps[j].cls, {})]
                        ELSE trace[j],
                        ClassInfo(steps[j].cls), steps[j].session_index,
                        steps[j].session)),
         << InitialRun >>, Len(steps)))

(* no teacher or student conflict in the slot and a room for the class there *)
PinFeasible(before, class_info, day, period) ==
    /\ SlotConflicts(before.schedule, class_info, day, period) = << >>
    /\ RoomUnavailable(assign_room(class_info), day, period, before.assigned_rooms) = << >>

RejectedPinAdded(before, after) ==
    Len(after.manual_conflicts) = Len(before.manual_conflicts) + 1

(* C28 for one pin: slots is the sequence of slots searched, in order *)
FirstFeasibleSlot(before, after, class_info, slots) ==
    With({i \in DOMAIN slots : PinFeasible(before, class_info, slots[i][1], slots[i][2])},
         LAMBDA feasible :
    IF feasible # {}
    THEN PlacedBy(before, after) = {slots[First(feasible)]}
    ELSE PlacedBy(before, after) = {} /\ RejectedPinAdded(before, after))

(* C28: a pin that names only the day is placed at the first period, in   *)
(* the order 1, 2, 4, 5, 6, 7, 8, 9, 10, 11, where the class has no        *)
(* teacher or student conflict and a room is free, whether or not the      *)
(* period already holds sessions; if there is none a rejected-pin record   *)
(* is added.  A pin that names only the period is placed on the first such *)
(* day, Monday to Friday, or rejected.                                     *)
C28_PartialPinFirstFeasible ==
    Generated =>
        With(PinSteps, LAMBDA steps :
        With(PinTrace, LAMBDA trace :
            \A j \in DOMAIN steps :
                /\ (steps[j].session.day \in DaySet /\ steps[j].session.period = OpenPeriod)
                       => FirstFeasibleSlot(
                              trace[j], trace[j + 1], ClassInfo(steps[j].cls),
                              List([i \in DOMAIN PinSearchPeriods |->
                                       <<steps[j].session.day, PinSearchPeriods[i]>>]))
                /\ (steps[j].session.day = "Open" /\ steps[j].session.period # OpenPeriod)
                       => FirstFeasibleSlot(
                              trace[j], trace[j + 1], ClassInfo(steps[j].cls),
                              List([i \in DOMAIN DAYS |->
                                       <<DAYS[i], steps[j].session.period>>]))))


(* no teacher or student conflict on any day of the candidate, and a room *)
(* of the class's own category free on each of them                       *)
FeasibleWithOwnRoom(before, class_info, candidate) ==
    \A i \in DOMAIN candidate.day_option :
        PinFeasible(before, class_info, candidate.day_option[i], candidate.period)

(* C29 for one class of one configuration *)
HintsAreSoft(before, after, class_info, approach) ==
    With(PatternOf(before, class_info), LAMBDA manual_pattern :
    With(AllCandidates(before, class_info, manual_pattern, approach), LAMBDA candidates :
    With(FeasibleAmong(before, class_info, candidates, manual_pattern.preferred_room),
         LAMBDA feasible :
    RemainingSessionsNeeded(before, class_info) > 0
    => /\ \A k \in DOMAIN candidates :
              FeasibleWithOwnRoom(before, class_info, candidates[k]) => k \in feasible
       /\ (/\ manual_pattern.preferred_period # OpenPeriod
           /\ \A k \in feasible : candidates[k].period # manual_pattern.preferred_period
           /\ feasible # {})
              => PlacedBy(before, after) # {})))

(* C29: the hints are soft.  A candidate where the class has no teacher   *)
(* or student conflict and a room of its own category is free is feasible *)
(* for the search, also when the hinted room is taken there; and a class   *)
(* whose hinted period has no feasible candidate is placed in another      *)
(* period when one is feasible.                                            *)
C29_HintsAreSoft ==
    Generated =>
        \A a \in DOMAIN Approaches(scheduler.use_period_7) :
            With(SearchTrace(Approaches(scheduler.use_period_7)[a]), LAMBDA trace :
                \A k \in DOMAIN SortedClasses :
                    HintsAreSoft(trace[k], trace[k + 1], SortedClasses[k],
                                 Approaches(scheduler.use_period_7)[a]))


(* the category the precedence of C30 gives to a request *)
CategoryByPrecedence(request) ==
    IF /\ "X" \in DOMAIN request.manual_rooms
       /\ request.manual_rooms["X"] \in RoomNames
    THEN RoomTypeOf(request.manual_rooms["X"])
    ELSE IF request.class_info.Course \in {"GECO", "GELA"} THEN "computer_lab"
    ELSE IF Len(request.class_info.Students) > 40 THEN "chapel"
    ELSE "regular_classroom"

TakenPoolRooms(request) ==
    {room \in Range(regular_classrooms) :
        <<RoomSlot[1], RoomSlot[2], room>> \in request.assigned_rooms}

(* C30: assign_room gives the room of a manual override for the class;    *)
(* otherwise Computer Lab to a computer or ESL course, also with more than *)
(* 40 students; otherwise Chapel to more than 40 students, not to exactly  *)
(* 40; otherwise the pool, where the first free room in the order          *)
(* Classroom 2, 4, 5, 6 is used and none only when all four are taken.     *)
C30_RoomPrecedence ==
    /\ response.op \in {"assign_room", "get_available_regular_classroom"}
           => response.room_type = CategoryByPrecedence(response.request)
    /\ response.op = "get_available_regular_classroom"
           => With(TakenPoolRooms(response.request), LAMBDA taken :
                  /\ response.room = NoneVal <=> taken = Range(regular_classrooms)
                  /\ response.room # NoneVal
                         => /\ response.room
                                   \in {"classroom_2", "classroom_4", "classroom_5",
                                        "classroom_6"} \ taken
                            /\ (response.room # "classroom_2" => "classroom_2" \in taken)
                            /\ (response.room \in {"classroom_5", "classroom_6"}
                                    => "classroom_4" \in taken)
                            /\ (response.room = "classroom_6" => "classroom_5" \in taken))

(* a computer course of more than 40 students, without override, given the *)
(* Computer Lab                                                            *)
C30_Witness ==
    /\ response.op = "assign_room"
    /\ response.request.manual_rooms = << >>
    /\ response.request.class_info.Course = "GECO"
    /\ Len(response.request.class_info.Students) > 40
    /\ response.room_type = "computer_lab"


(***************************************************************************)
(* The day patterns offered to the classes of a request.                   *)
(***************************************************************************)
RequestFrequencies ==
    {get_class_frequency(scheduler.classes[k].Units) : k \in DOMAIN scheduler.classes}

(* options are pairwise different and each has frequency distinct weekdays *)
WellFormedOptions(options, frequency) ==
    /\ \A i, j \in DOMAIN options : options[i] = options[j] => i = j
    /\ \A i \in DOMAIN options :
           /\ Len(options[i]) = frequency
           /\ Range(options[i]) \subseteq DaySet
           /\ Cardinality(Range(options[i])) = frequency

(* pairs is the number of alternative pairs after Tuesday/Thursday *)
PreferredDaysShape(frequency, pairs) ==
    With(get_preferred_days(frequency), LAMBDA options :
        /\ WellFormedOptions(options, frequency)
        /\ frequency = 1
               => options = << <<"Monday">>, <<"Tuesday">>, <<"Wednesday">>,
                               <<"Thursday">>, <<"Friday">> >>
        /\ frequency = 2
               => /\ options[1] = <<"Tuesday", "Thursday">>
                  /\ Len(options) = 1 + pairs
        /\ frequency = 3
               => /\ options[1] = <<"Monday", "Wednesday", "Friday">>
                  /\ Len(options) = 1 + 5)

(* C31 as stated: get_preferred_days gives the five weekdays one by one   *)
(* for frequency 1, Tuesday/Thursday and exactly six other pairs for       *)
(* frequency 2, Monday/Wednesday/Friday and exactly five other triples for *)
(* frequency 3, each option with as many distinct days as the frequency.   *)
C31_PreferredDays ==
    Generated => \A frequency \in RequestFrequencies : PreferredDaysShape(frequency, 6)

(* C31 with the count of the code: Tuesday/Thursday is followed by exactly *)
(* seven other pairs; the rest as stated.                                  *)
C31_PreferredDaysSevenPairs ==
    Generated => \A frequency \in RequestFrequencies : PreferredDaysShape(frequency, 7)

(* a request with classes of one, two and three sessions a week *)
C31_Witness ==
    /\ Generated
    /\ RequestFrequencies = {1, 2, 3}
    /\ GridCount("A") = 3 /\ GridCount("C") = 2 /\ GridCount("D") = 1


(* the room a session of the produced grid carries, as the route reads it *)
RoomCarried(day, period, class_name) ==
    Get(scheduler.room_assignments, <<day, period, class_name>>, "TBD")

(* C32: every session of a produced grid, pinned or placed by the search, *)
(* carries one of Computer Lab, Chapel, Classroom 2, 4, 5, 6, and that     *)
(* room is recorded as occupied for the session's day and period in the    *)
(* room ledger of the run; no session carries a placeholder.               *)
C32_SessionsCarryLedgerRoom ==
    Generated =>
        \A d \in DaySet, p \in Periods :
            \A i \in DOMAIN scheduler.schedule[d][p] :
                With(RoomCarried(d, p, scheduler.schedule[d][p][i]), LAMBDA room :
                    /\ room \in RoomNames
                    /\ <<d, p, RoomTypeOf(room)>> \in scheduler.assigned_rooms)

(***************************************************************************)
(* check_conflicts over the pairs of classes a scheduling request compares *)
(***************************************************************************)
ConflictTypes(conflicts) == {conflicts[i].type : i \in DOMAIN conflicts}

ComparedClasses == {scheduler.classes[k] : k \in DOMAIN scheduler.classes}

ConflictsAgree(a, b) ==
    With(ConflictTypes(check_conflicts(a, b)), LAMBDA forward :
    With(ConflictTypes(check_conflicts(b, a)), LAMBDA backward :
        /\ forward = backward
        /\ SharedStudents(a, b) = SharedStudents(b, a)
        /\ ("teacher" \in forward) <=> (a.Teacher = b.Teacher)
        /\ ("student" \in forward)
               <=> (\E s \in Range(parse_students(a.Students)) :
                       s \in Range(parse_students(b.Students)))
        /\ forward \subseteq {"teacher", "student"}))

(* C33: check_conflicts(a, b) and check_conflicts(b, a) report the same    *)
(* kinds of conflict and the same set of shared students; a teacher        *)
(* conflict is reported exactly when the two teachers are equal and a      *)
(* student conflict exactly when the two student sets have a common        *)
(* member.  The operator reads its two arguments only.                     *)
C33_ConflictsSymmetric ==
    Generated => \A a \in ComparedClasses, b \in ComparedClasses : ConflictsAgree(a, b)

(* a request that compares a pair with the same teacher, a pair that       *)
(* shares a student and a pair with neither                                *)
C33_Witness ==
    /\ Generated
    /\ \E a \in ComparedClasses, b \in ComparedClasses :
           a.Class # b.Class /\ a.Teacher = b.Teacher /\ SharedStudents(a, b) = {}
    /\ \E a \in ComparedClasses, b \in ComparedClasses :
           /\ a.Class # classes_data[1].Class
           /\ a.Teacher # b.Teacher /\ SharedStudents(a, b) # {}
    /\ \E a \in ComparedClasses, b \in ComparedClasses :
           a.Teacher # b.Teacher /\ SharedStudents(a, b) = {}

(***************************************************************************)
(* generate_schedule as a function of the classes, the session             *)
(* assignments and use_period_7                                            *)
(***************************************************************************)
SameOutcome(run, other) ==
    /\ run.schedule = other.schedule
    /\ run.room_assignments = other.room_assignments
    /\ run.unscheduled = other.unscheduled
    /\ run.unscheduled_classes = other.unscheduled_classes
    /\ run.manual_conflicts = other.manual_conflicts

(* the same request served by a process with the iteration order order *)
RunUnder(order) ==
    generate_schedule(scheduler.classes, scheduler.session_assignments,
                      scheduler.use_period_7, order)

(* C34: two runs of generate_schedule on the same classes, session         *)
(* assignments and use_period_7 give the same grid, the same room          *)
(* assignments and the same unplaced and rejected-pin lists: the outcome   *)
(* of a run is the outcome of the same request under every iteration order *)
(* a set of day names may have.                                            *)
C34_SameInputsSameOutcome ==
    Generated => \A order \in HashOrders : SameOutcome(scheduler, RunUnder(order))

(***************************************************************************)
(* One class of the search: what it needs and what it gets                 *)
(***************************************************************************)
PlacedTogether(before, after, class_info, need) ==
    With(PlacedBy(before, after), LAMBDA placed :
        /\ Cardinality(placed) = need
        /\ \A sl \in placed, other \in placed : sl[2] = other[2]
        /\ \A sl \in placed, other \in placed : sl[1] = other[1] => sl = other
        /\ \A sl \in placed :
               after.schedule[sl[1]][sl[2]]
                   = Append(before.schedule[sl[1]][sl[2]], class_info.Class)
        /\ after.unscheduled_classes = before.unscheduled_classes)

NothingPlaced(before, after, class_info) ==
    /\ after.schedule = before.schedule
    /\ RecordedUnplaced(before, after, class_info)

AllOrNothing(before, after, class_info) ==
    With(RemainingSessionsNeeded(before, class_info), LAMBDA need :
        need > 0 => \/ PlacedTogether(before, after, class_info, need)
                    \/ NothingPlaced(before, after, class_info))

(* C35: in every configuration tried, a class that still needs sessions    *)
(* either gets all of them in one step, in one period and on pairwise      *)
(* different days, or gets none and is appended once to the unplaced list.  *)
C35_AllOrNothing ==
    Generated =>
        \A a \in DOMAIN Approaches(scheduler.use_period_7) :
            With(SearchTrace(Approaches(scheduler.use_period_7)[a]), LAMBDA trace :
                \A k \in DOMAIN SortedClasses :
                    AllOrNothing(trace[k], trace[k + 1], SortedClasses[k]))

(* a configuration in which one class got its sessions, more than one,     *)
(* together and another class, which also needed more than one, got none   *)
C35_Witness ==
    /\ Generated
    /\ \E a \in DOMAIN Approaches(scheduler.use_period_7) :
           With(SearchTrace(Approaches(scheduler.use_period_7)[a]), LAMBDA trace :
               /\ \E k \in DOMAIN SortedClasses :
                      With(RemainingSessionsNeeded(trace[k], SortedClasses[k]), LAMBDA need :
                          /\ need > 1
                          /\ PlacedTogether(trace[k], trace[k + 1], SortedClasses[k], need))
               /\ \E k \in DOMAIN SortedClasses :
                      /\ RemainingSessionsNeeded(trace[k], SortedClasses[k]) > 1
                      /\ NothingPlaced(trace[k], trace[k + 1], SortedClasses[k]))

(***************************************************************************)
(* The strict and the relaxed configuration of generate_schedule_internal  *)
(***************************************************************************)
InternalRun(use_period_7, aggressive_core_filling) ==
    generate_schedule_internal(scheduler.classes, scheduler.session_assignments,
                               use_period_7, aggressive_core_filling, hash_order)

SameOrder(use_period_7) ==
    \A k \in DOMAIN scheduler.classes, preferred_period \in {OpenPeriod} \cup Periods :
        Flatten(PeriodGroups(scheduler.classes[k].Class, preferred_period,
                             use_period_7, TRUE))
            = Flatten(PeriodGroups(scheduler.classes[k].Class, preferred_period,
                                   use_period_7, FALSE))

SameRun(use_period_7) ==
    With(InternalRun(use_period_7, TRUE), LAMBDA strict :
    With(InternalRun(use_period_7, FALSE), LAMBDA relaxed :
        /\ strict.schedule = relaxed.schedule
        /\ strict.room_assignments = relaxed.room_assignments
        /\ strict.unscheduled_classes = relaxed.unscheduled_classes))

(* C36: for the classes and session assignments of a request and either    *)
(* value of use_period_7, generate_schedule_internal gives the same grid,  *)
(* room assignments and unplaced list with aggressive_core_filling true as *)
(* with false, and both try the periods of every class in the same order.  *)
C36_StrictEqualsRelaxed ==
    Generated => \A use_period_7 \in BOOLEAN :
                     SameOrder(use_period_7) /\ SameRun(use_period_7)

(* a request whose search, with period 7 allowed, went past the core       *)
(* periods: a session was placed in period 1 or 7                          *)
C36_Witness ==
    /\ Generated
    /\ With(ProcessManualAssignments(scheduler.classes, scheduler.session_assignments),
            LAMBDA manual_run :
                \E sl \in PlacedBy(manual_run, InternalRun(TRUE, FALSE)) :
                    sl[2] \in {1, 7})

(***************************************************************************)
(* get_valid_slots against move_class on the same grid                     *)
(***************************************************************************)
MoveTo(drag, day, period) ==
    [class_name |-> drag.class_name, session_index |-> drag.session_index,
     current_day |-> drag.current_day, current_period |-> drag.current_period,
     new_day |-> day, new_period |-> period]

MoveAccepted(grid, selected, request) ==
    ~MoveDecision(grid, selected, request).duplicate_detected

AllScheduledSelected ==
    \A d \in DaySet, p \in Periods :
        \A i \in DOMAIN Live(d, p) : Live(d, p)[i].Class \in Range(selected_classes)

(* C37: on a live grid without a teacher or student clash whose classes    *)
(* are all selected, every entry of the validity map that get_valid_slots  *)
(* returns for a displayed session is valid exactly when move_class        *)
(* accepts the move of that session to the entry's day and period.         *)
C37_ValidIffMoveAccepted ==
    (/\ response.op = "get_valid_slots" /\ response.success
     /\ C19_MovesKeepGridClashFree /\ AllScheduledSelected)
        => \A k \in DOMAIN response.valid_slots :
               With(response.valid_slots[k], LAMBDA entry :
                   entry.valid <=> MoveAccepted(current_schedule, selected_classes,
                                                MoveTo(response.request, entry.day,
                                                       entry.period)))

(* the map was returned for a session of A on a grid that a move has       *)
(* changed; it marks a slot holding C, which shares a student with A,      *)
(* invalid, a slot holding another session of A invalid, and a free slot   *)
(* valid                                                                   *)
C37_Witness ==
    /\ response.op = "get_valid_slots" /\ response.success
    /\ response.request.class_name = "A"
    /\ moves > 0
    /\ current_schedule # GeneratedGrid
    /\ \E k \in DOMAIN response.valid_slots :
           With(response.valid_slots[k], LAMBDA entry :
               /\ ~entry.valid
               /\ EntriesOf(current_schedule, entry.day, entry.period, "C") # {}
               /\ EntriesOf(current_schedule, entry.day, entry.period, "A") = {})
    /\ \E k \in DOMAIN response.valid_slots :
           With(response.valid_slots[k], LAMBDA entry :
               ~entry.valid /\ EntriesOf(current_schedule, entry.day, entry.period, "A") # {})
    /\ \E k \in DOMAIN response.valid_slots :
           With(response.valid_slots[k], LAMBDA entry :
               entry.valid /\ current_schedule[entry.day][entry.period] = << >>)

(***************************************************************************)
(* What an accepted move_class changes                                     *)
(***************************************************************************)
(* the session left its slot and was appended, as it was, to the target *)
OnlySessionMoved(before, after, request) ==
    /\ \A d \in DaySet, p \in Periods :
           (/\ ~(d = request.current_day /\ p = request.current_period)
            /\ ~(d = request.new_day /\ p = request.new_period))
               => after[d][p] = before[d][p]
    /\ \E i \in EntriesOf(before, request.current_day, request.current_period,
                           request.class_name) :
           With(before[request.current_day][request.current_period], LAMBDA old_slot :
               IF SameSlot(request)
               THEN after[request.new_day][request.new_period]
                        = Append(RemoveAt(old_slot, i), old_slot[i])
               ELSE /\ after[request.current_day][request.current_period]
                           = RemoveAt(old_slot, i)
                    /\ after[request.new_day][request.new_period]
                           = Append(before[request.new_day][request.new_period],
                                    old_slot[i]))

SessionCountsKept(before, after) ==
    \A c \in ClassNames : EntryCount(after, c) = EntryCount(before, c)

PlacedSessions(sessions) ==
    {<<sessions[k].day, sessions[k].period, sessions[k].room>> :
        k \in {j \in DOMAIN sessions : sessions[j].day \in DaySet}}

StoredDescribesGrid(assignments, grid) ==
    /\ \A c \in ClassNames : EntryCount(grid, c) > 0 => HasKey(assignments, c)
    /\ \A a \in DOMAIN assignments :
           /\ PlacedSessions(assignments[a].sessions)
                  = {<<e.day, e.period, e.entry.room>> :
                        e \in {f \in Range(GridEntries(grid)) :
                                  f.entry.Class = assignments[a].cls}}
           /\ Cardinality({k \in DOMAIN assignments[a].sessions :
                              assignments[a].sessions[k].day \in DaySet})
                  = EntryCount(grid, assignments[a].cls)

(* C38: an accepted move_class takes the moved session out of its slot and *)
(* appends it, with its room, to the target slot; every other slot and     *)
(* every other session of the two slots is as before, every class has as   *)
(* many sessions in the grid as before, and the stored session assignments *)
(* then list, class by class, the day, period and room of exactly the      *)
(* sessions of the grid.                                                   *)
C38_AcceptedMoveFrame ==
    [][(IsMoveStep /\ response'.success)
           => /\ OnlySessionMoved(current_schedule, current_schedule', response'.request)
              /\ SessionCountsKept(current_schedule, current_schedule')
              /\ StoredDescribesGrid(manual_session_assignments', current_schedule')
              /\ StoredDescribesGrid(last_schedule_file'.session_assignments,
                                     current_schedule')]_vars

(* a second move was accepted on a grid that the first accepted move had   *)
(* changed: the session is in another slot than before, and the stored     *)
(* session assignments list the sessions of the grid                       *)
C38_Witness ==
    /\ current_schedule # NoSchedule
    /\ moves = 2
    /\ response.op = "move_class" /\ response.success
    /\ ~SameSlot(response.request)
    /\ EntriesOf(current_schedule, response.request.new_day, response.request.new_period,
                 response.request.class_name) # {}
    /\ EntriesOf(current_schedule, response.request.current_day,
                 response.request.current_period, response.request.class_name) = {}
    /\ Cardinality({sl \in DaySet \X Periods :
                       current_schedule[sl[1]][sl[2]] # GeneratedGrid[sl[1]][sl[2]]}) > 2
    /\ StoredDescribesGrid(manual_session_assignments, current_schedule)

(***************************************************************************)
(* The live grid between /set_selection and the next /generate_schedule    *)
(***************************************************************************)
DragStep == response'.op \in {"get_valid_slots", "move_class"}

RefusedWithoutGrid ==
    /\ ~response'.success
    /\ response'.error = "No generated schedule found"
    /\ UNCHANGED <<selected_classes, manual_session_assignments, current_schedule,
                   last_schedule_file>>

(* C39: /set_selection leaves no live grid; while there is none, every     *)
(* get_valid_slots and move_class request is refused with the              *)
(* no-generated-schedule error and changes nothing, and only               *)
(* /generate_schedule brings a grid back: /load_saved_schedule leaves the  *)
(* grid as it is.                                                          *)
C39_NoGridUntilGenerate ==
    [][/\ response'.op = "set_selection" => current_schedule' = NoSchedule
       /\ (current_schedule = NoSchedule /\ DragStep) => RefusedWithoutGrid
       /\ (current_schedule = NoSchedule /\ response'.op # "generate_schedule")
              => current_schedule' = NoSchedule
       /\ response'.op = "load_saved_schedule"
              => current_schedule' = current_schedule]_vars

(* a selection was confirmed and saved, and two move_class requests have   *)
(* since been refused for want of a grid                                   *)
C39_Witness ==
    /\ selected_classes # << >>
    /\ last_schedule_file.exists
    /\ current_schedule = NoSchedule
    /\ generations = 0
    /\ moves = 2
    /\ response = NoGridError("move_class", response.request)

====
